---- MODULE Spec2Model ----
(***************************************************************************)
(* Focus Nexus: a tree-walking interpreter (lexer -> parser -> interpreter)*)
(* with its file-mode driver.  The model follows the C++ sources:          *)
(*   src/src/parser/parser.cpp      recursive-descent parser               *)
(*   src/src/interpreter.cpp        visitor-style evaluator                *)
(*   src/src/runtime/callable.cpp   Function / BoundMethod / Lambda calls  *)
(*   src/src/runtime/native_functions.cpp   builtins                       *)
(*   src/src/error/*.hpp|cpp        error reporter and exception types     *)
(*   src/src/main.cpp               runFile / runPrompt / main             *)
(* C++ exceptions are modelled by an in-flight signal that unwinds the     *)
(* activation stack one frame per step; every try/catch of the sources is  *)
(* a handler step of the frame that holds it.                              *)
(***************************************************************************)
EXTENDS Integers, Sequences, FiniteSets, TLC

VARIABLES
    pc,               \* position of the driver (main / runFile)
    source,           \* the script, as the lexemes the scanner divides it into
    tokens,           \* the token vector handed to the Parser
    statements,       \* the statement list returned by Parser::parse
    parsed,           \* the full result record of the parse (position, flags)
    hadError,         \* ErrorHandler::hadError
    hadRuntimeError,  \* ErrorHandler::hadRuntimeError
    errout,           \* diagnostics written to standard error, in order
    output,           \* lines written to standard output, in order
    exitCode,         \* the process exit code, -1 while running
    environment,      \* Interpreter::environment (an environment id)
    envs,             \* the heap of Environment objects: id -> [parent, values]
    stack,            \* the C++ activation stack, innermost last
    sig,              \* the exception in flight, or none
    ret,              \* the value returned by the activation that just ended
    hist,             \* history: one record per finished construct
    argc,             \* main's argc
    stdin,            \* standard input: the lines not yet read
    line,             \* runPrompt's variable line
    cin,              \* state of std::cin, and how often a read of it failed
    objects           \* the objects made so far, and what became of AST nodes

vars == <<pc, source, tokens, statements, parsed, hadError, hadRuntimeError, errout,
          output, exitCode, environment, envs, stack, sig, ret, hist, argc,
          stdin, line, cin, objects>>

(***************************************************************************)
(* Tokens (src/src/lexer/token.hpp).                                       *)
(***************************************************************************)
Tok(type, lexeme) ==
    [type |-> type, lexeme |-> lexeme, num |-> 0, huge |-> FALSE, wide |-> FALSE]

\* a NUMBER token whose literal is the decimal numeral of n
NumTok(n) == [Tok("NUMBER", "") EXCEPT !.num = n]

\* a NUMBER token whose literal is a numeral beyond the range of double, such
\* as a run of 400 digits (Lexer::number takes any run of digits)
HugeTok == [Tok("NUMBER", "") EXCEPT !.huge = TRUE]

\* the NUMBER token 4294967296, a number beyond the range of int
WideTok == [Tok("NUMBER", "") EXCEPT !.wide = TRUE]

T(type) == Tok(type, "")

Id(name) == Tok("IDENTIFIER", name)

Str(text) == Tok("STRING", text)

NL == T("NEWLINE")

EOF == T("EOF_TOKEN")

(***************************************************************************)
(* Values (src/src/runtime/value.hpp).                                     *)
(***************************************************************************)
Nil == [t |-> "nil"]

BoolV(b) == [t |-> "bool", b |-> b]

NumV(n) == [t |-> "num", n |-> n]

\* the number 4294967296: a number that is no int, so without n
WideV == [t |-> "num", wide |-> TRUE]

StrV(s) == [t |-> "str", s |-> s]

\* a list: a shared_ptr to the vector object id, which holds items
ListV(items, id) == [t |-> "list", items |-> items, id |-> id]

Null == [k |-> "Null"]

(***************************************************************************)
(* Parser (src/src/parser/parser.cpp).  A parser state s is                *)
(*   pos     current + 1 (tokens are indexed from 1)                       *)
(*   ok      FALSE while an exception is being thrown                      *)
(*   fatal   TRUE when that exception is not a ParseError                  *)
(*   had     ErrorHandler::hadError as set by the parser                   *)
(*   out     the nodes built so far, innermost last                        *)
(*   thrown  number of ParseErrors thrown so far                           *)
(*   stuck   TRUE when a loop iteration consumed no token (the C++ loop    *)
(*           would then never end)                                         *)
(***************************************************************************)
PState(pos) ==
    [pos |-> pos, ok |-> TRUE, fatal |-> FALSE, had |-> FALSE, out |-> <<>>,
     thrown |-> 0, stuck |-> FALSE]

peek(toks, s) == toks[s.pos]

previous(toks, s) == toks[s.pos - 1]

isAtEnd(toks, s) == peek(toks, s).type = "EOF_TOKEN"

check(toks, s, type) ==
    IF isAtEnd(toks, s) THEN FALSE ELSE peek(toks, s).type = type

checkAny(toks, s, types) == \E type \in types : check(toks, s, type)

advance(toks, s) ==
    IF ~isAtEnd(toks, s) THEN [s EXCEPT !.pos = @ + 1] ELSE s

ThrowParseError(s) == [s EXCEPT !.ok = FALSE, !.thrown = @ + 1]

\* std::stod throws std::out_of_range, which is no ParseError
ThrowOutOfRange(s) == [s EXCEPT !.ok = FALSE, !.fatal = TRUE]

consume(toks, s, type) ==
    IF s.ok
    THEN IF check(toks, s, type) THEN advance(toks, s) ELSE ThrowParseError(s)
    ELSE s

ReportError(s) == [s EXCEPT !.had = TRUE]

Top(s) == s.out[Len(s.out)]

Under(s, n) == s.out[Len(s.out) - n]

Drop(s, n) == [s EXCEPT !.out = SubSeq(@, 1, Len(@) - n)]

Push(s, node) == [s EXCEPT !.out = Append(@, node)]

\* replace the n topmost nodes by one node
Build(s, n, node) == Push(Drop(s, n), node)

\* the std::vector under the top grows by the node on top
Collect(s) == Build(s, 2, Append(Under(s, 1), Top(s)))

(***************************************************************************)
(* AST nodes (src/src/parser/ast.hpp).  A null child is Null.              *)
(***************************************************************************)
LiteralExpr(value) == [k |-> "Literal", value |-> value]

VariableExpr(name) == [k |-> "Variable", name |-> name]

BinaryExpr(left, op, right) ==
    [k |-> "Binary", left |-> left, operator_ |-> op, right |-> right]

ReturnStmt(value) == [k |-> "Return", value |-> value]

\* parser.cpp:102 and parser.cpp:489, the most parameters or arguments
MaxArity == 255

RECURSIVE Parse(_, _, _)
RECURSIVE paramList(_, _, _), exprList(_, _, _), blockLoop(_, _)
RECURSIVE callLoop(_, _), unary(_, _), binary(_, _, _), binaryLoop(_, _, _)
RECURSIVE methodLoop(_, _), switchLoop(_, _), syncLoop(_, _)

\* consume(IDENTIFIER, ...) keeping the name: its lexeme becomes the top node
Name(toks, s) ==
    LET s1 == consume(toks, s, "IDENTIFIER")
    IN  IF s1.ok THEN Push(s1, previous(toks, s1).lexeme) ELSE s1

\* vector.push_back(node) unless an exception is in flight
Collected(s) == IF s.ok THEN Collect(s) ELSE s

\* the end of an iteration of a statement loop that began at token from:
\* if (auto stmt = declaration()) statements.push_back(std::move(stmt));
\* the parser is stuck if the iteration consumed no token
Iterated(s, from) ==
    IF s.ok
    THEN LET kept == IF Top(s).k = "Null" THEN Drop(s, 1) ELSE Collect(s)
         IN  [kept EXCEPT !.stuck = @ \/ s.pos = from]
    ELSE s

\* std::make_unique<...>(...) of each parsing function, from the nodes its
\* calls left on top; nothing if a ParseError is in flight
Reduce(s, kind) ==
    IF s.ok
    THEN CASE kind = "Ternary" ->
                Build(s, 3, [k |-> "Ternary", condition |-> Under(s, 2),
                             thenExpr |-> Under(s, 1), elseExpr |-> Top(s)])
           [] kind = "Assign" ->
                IF Under(s, 1).k = "Variable"
                THEN Build(s, 2, [k |-> "Assign", name |-> Under(s, 1).name,
                                  value |-> Top(s)])
                ELSE IF Under(s, 1).k = "Get"
                THEN Build(s, 2, [k |-> "Set", object |-> Under(s, 1).object,
                                  name |-> Under(s, 1).name, value |-> Top(s)])
                ELSE ReportError(Drop(s, 1))
           [] kind = "Binary" ->
                Build(s, 3, BinaryExpr(Under(s, 2), Under(s, 1), Top(s)))
           [] kind = "Unary" ->
                Build(s, 2, [k |-> "Unary", operator_ |-> Under(s, 1), right |-> Top(s)])
           [] kind = "Call" ->
                Build(s, 2, [k |-> "Call", callee |-> Under(s, 1), arguments |-> Top(s)])
           [] kind = "Index" ->
                Build(s, 2, [k |-> "Index", object |-> Under(s, 1), index |-> Top(s)])
           [] kind = "Get" ->
                Build(s, 2, [k |-> "Get", object |-> Under(s, 1), name |-> Top(s)])
           [] kind = "Super" -> Build(s, 1, [k |-> "Super", method |-> Top(s)])
           [] kind = "Variable" -> Build(s, 1, VariableExpr(Top(s)))
           [] kind = "Lambda" ->
                Build(s, 3, [k |-> "Lambda", params |-> Under(s, 1), body |-> Top(s),
                             tok |-> Under(s, 2)])
           [] kind = "LambdaReturn" -> Build(s, 1, <<ReturnStmt(Top(s))>>)
           [] kind = "Grouping" -> Build(s, 1, [k |-> "Grouping", expression |-> Top(s)])
           [] kind = "List" -> Build(s, 1, [k |-> "List", elements |-> Top(s)])
           [] kind = "Block" -> Build(s, 1, [k |-> "Block", statements |-> Top(s)])
           [] kind = "Print" -> Build(s, 1, [k |-> "Print", expression |-> Top(s)])
           [] kind = "Return" -> Build(s, 1, ReturnStmt(Top(s)))
           [] kind = "Throw" -> Build(s, 1, [k |-> "Throw", value |-> Top(s)])
           [] kind = "Expression" ->
                Build(s, 1, [k |-> "Expression", expression |-> Top(s)])
           [] kind = "Var" ->
                Build(s, 2, [k |-> "Var", name |-> Under(s, 1), initializer |-> Top(s)])
           [] kind = "Function" ->
                Build(s, 3, [k |-> "Function", name |-> Under(s, 2),
                             params |-> Under(s, 1), body |-> Top(s).statements])
           [] kind = "If" ->
                Build(s, 3, [k |-> "If", condition |-> Under(s, 2),
                             thenBranch |-> Under(s, 1), elseBranch |-> Top(s)])
           [] kind = "While" ->
                Build(s, 3, [k |-> "While", condition |-> Under(s, 1), body |-> Top(s),
                             tok |-> Under(s, 2)])
           [] kind = "For" ->
                Build(s, 6, [k |-> "For",
                             initializer |-> [k |-> "Var", name |-> Under(s, 4),
                                              initializer |-> Under(s, 3)],
                             condition |-> Under(s, 2), increment |-> Under(s, 1),
                             body |-> Top(s), tok |-> Under(s, 5)])
           [] kind = "Class" ->
                Build(s, 3, [k |-> "Class", name |-> Under(s, 2),
                             superclass |-> Under(s, 1), methods |-> Top(s)])
           [] kind = "Import" ->
                Build(s, 2, [k |-> "Import", module |-> Under(s, 1), alias |-> Top(s)])
           [] kind = "Try" ->
                Build(s, 4, [k |-> "Try", tryBlock |-> Under(s, 3),
                             catchVar |-> Under(s, 2), catchBlock |-> Under(s, 1),
                             finallyBlock |-> Top(s)])
           [] kind = "Case" ->
                Push(Build(s, 4, Append(Under(s, 3), <<Under(s, 1), Top(s)>>)),
                     Under(s, 2))
           [] kind = "Default" -> Build(s, 2, Top(s))
           [] OTHER ->
                Build(s, 3, [k |-> "Switch", expr |-> Under(s, 2),
                             cases |-> Under(s, 1), defaultCase |-> Top(s)])
    ELSE s

\* the operators of one precedence level: logicalOr, logicalAnd, equality,
\* comparison, term, factor (parser.cpp:381-451)
LevelOps(level) ==
    CASE level = 1 -> {"OR"}
      [] level = 2 -> {"AND"}
      [] level = 3 -> {"BANG_EQUAL", "EQUAL_EQUAL"}
      [] level = 4 -> {"GREATER", "GREATER_EQUAL", "LESS", "LESS_EQUAL"}
      [] level = 5 -> {"MINUS", "PLUS"}
      [] OTHER -> {"SLASH", "STAR"}

\* consume(type, ...) and then std::make_unique of the node
Closed(toks, s, type, kind) ==
    IF s.ok THEN Reduce(consume(toks, s, type), kind) ELSE s

\* do { if (size >= 255) error(...); v.push_back(consume(IDENTIFIER)); }
\* while (match(COMMA)); the vector is on top; limited is TRUE for
\* functionStatement (parser.cpp:101-106), FALSE for a lambda (parser.cpp:517-519)
paramList(toks, s, limited) ==
    LET s1 == Collected(Name(toks, IF limited /\ Len(Top(s)) >= MaxArity
                                   THEN ReportError(s) ELSE s))
    IN  IF s1.ok /\ check(toks, s1, "COMMA")
        THEN paramList(toks, advance(toks, s1), limited)
        ELSE s1

\* if (!check(RIGHT_PAREN)) { do ... while } with an empty vector pushed
parameters(toks, s, limited) ==
    IF s.ok /\ ~check(toks, s, "RIGHT_PAREN")
    THEN paramList(toks, Push(s, <<>>), limited)
    ELSE Push(s, <<>>)

\* while (match(COMMA)) of an expression list
exprMore(toks, s, limited) ==
    IF s.ok
    THEN IF check(toks, s, "COMMA")
         THEN exprList(toks, advance(toks, Collect(s)), limited)
         ELSE Collect(s)
    ELSE s

\* do { if (size >= 255) error(...); v.push_back(expression()); }
\* while (match(COMMA)); limited is TRUE for finishCall (parser.cpp:488-493),
\* FALSE for a list literal (parser.cpp:567-569)
exprList(toks, s, limited) ==
    exprMore(toks,
             Parse("expression", toks,
                   IF limited /\ Len(Top(s)) >= MaxArity THEN ReportError(s) ELSE s),
             limited)

\* if (!check(close)) { do ... while } with an empty vector pushed
elements(toks, s, close, limited) ==
    IF s.ok /\ ~check(toks, s, close)
    THEN exprList(toks, Push(s, <<>>), limited)
    ELSE Push(s, <<>>)

\* while (!check(RIGHT_BRACE) && !isAtEnd()) { ... declaration() ... } of
\* blockStatement (parser.cpp:178-185) and of a lambda body (parser.cpp:528-533);
\* the statement vector is on top
blockLoop(toks, s) ==
    IF s.ok
    THEN CASE s.stuck -> s
           [] check(toks, s, "RIGHT_BRACE") \/ isAtEnd(toks, s) -> s
           [] check(toks, s, "NEWLINE") -> blockLoop(toks, advance(toks, s))
           [] OTHER -> blockLoop(toks, Iterated(Parse("declaration", toks, s), s.pos))
    ELSE s

blockStatement(toks, s) ==
    Closed(toks, blockLoop(toks, Push(s, <<>>)), "RIGHT_BRACE", "Block")

\* the body of a lambda (parser.cpp:526-539)
lambdaBody(toks, s) ==
    IF s.ok
    THEN IF check(toks, s, "LEFT_BRACE")
         THEN consume(toks, blockLoop(toks, Push(advance(toks, s), <<>>)),
                      "RIGHT_BRACE")
         ELSE Reduce(Parse("expression", toks, s), "LambdaReturn")
    ELSE s

\* parser.cpp:512-542, after match(LAMBDA)
lambdaExpr(toks, s) ==
    Reduce(lambdaBody(toks,
               consume(toks, consume(toks, consume(toks,
                   parameters(toks, consume(toks, Push(s, s.pos - 1), "LEFT_PAREN"),
                              FALSE),
                   "RIGHT_PAREN"), "COLON"), "NEWLINE")),
           "Lambda")

finishCall(toks, s) ==
    Closed(toks, elements(toks, s, "RIGHT_PAREN", TRUE), "RIGHT_PAREN", "Call")

\* The token kinds EXTERN, PLUGIN, LOAD_LIBRARY and CALL_NATIVE that parser.cpp
\* also tests are not members of TokenType (token.hpp:5-32): no token has them.
primary(toks, s) ==
    LET type == peek(toks, s).type
        s1 == advance(toks, s)
    IN  CASE type = "FALSE" -> Push(s1, LiteralExpr(BoolV(FALSE)))
          [] type = "TRUE" -> Push(s1, LiteralExpr(BoolV(TRUE)))
          [] type = "NIL" -> Push(s1, LiteralExpr(Nil))
          [] type = "THIS" -> Push(s1, [k |-> "This"])
          [] type = "SUPER" -> Reduce(Name(toks, consume(toks, s1, "DOT")), "Super")
          [] type = "LAMBDA" -> lambdaExpr(toks, s1)
          [] type = "NUMBER" ->
                IF peek(toks, s).huge THEN ThrowOutOfRange(s1)
                ELSE IF peek(toks, s).wide THEN Push(s1, LiteralExpr(WideV))
                ELSE Push(s1, LiteralExpr(NumV(peek(toks, s).num)))
          [] type = "STRING" -> Push(s1, LiteralExpr(StrV(peek(toks, s).lexeme)))
          [] type = "IDENTIFIER" -> Push(s1, VariableExpr(peek(toks, s).lexeme))
          [] type = "LEFT_PAREN" ->
                Closed(toks, Parse("expression", toks, s1), "RIGHT_PAREN", "Grouping")
          [] type = "LEFT_BRACKET" ->
                Closed(toks, elements(toks, s1, "RIGHT_BRACKET", FALSE),
                       "RIGHT_BRACKET", "List")
          [] OTHER -> ThrowParseError(s)

\* while (true) of call (parser.cpp:466-479)
callLoop(toks, s) ==
    IF s.ok
    THEN CASE check(toks, s, "LEFT_PAREN") ->
                callLoop(toks, finishCall(toks, advance(toks, s)))
           [] check(toks, s, "LEFT_BRACKET") ->
                callLoop(toks, Closed(toks, Parse("expression", toks, advance(toks, s)),
                                      "RIGHT_BRACKET", "Index"))
           [] check(toks, s, "DOT") ->
                callLoop(toks, Reduce(Name(toks, advance(toks, s)), "Get"))
           [] OTHER -> s
    ELSE s

call(toks, s) == callLoop(toks, primary(toks, s))

unary(toks, s) ==
    IF checkAny(toks, s, {"BANG", "MINUS"})
    THEN Reduce(unary(toks, Push(advance(toks, s), peek(toks, s).type)), "Unary")
    ELSE call(toks, s)

\* while (match(...)) { operator_ = previous(); right = ...; expr = Binary } of
\* one level; the right operand is of the next level
binaryLoop(toks, s, level) ==
    IF s.ok
    THEN IF checkAny(toks, s, LevelOps(level))
         THEN binaryLoop(toks,
                  Reduce(binary(toks, Push(advance(toks, s), peek(toks, s).type),
                                level + 1),
                         "Binary"),
                  level)
         ELSE s
    ELSE s

\* the loops of the levels from factor down to level, each on the result of
\* the level above it; s is the parser after unary
levels(toks, s, level) ==
    LET factor == binaryLoop(toks, s, 6)
        term == IF level <= 5 THEN binaryLoop(toks, factor, 5) ELSE factor
        comparison == IF level <= 4 THEN binaryLoop(toks, term, 4) ELSE term
        equality == IF level <= 3 THEN binaryLoop(toks, comparison, 3) ELSE comparison
        logicalAnd == IF level <= 2 THEN binaryLoop(toks, equality, 2) ELSE equality
    IN  CASE ~s.ok \/ level > 6 -> s
          [] ~factor.ok -> factor
          [] ~term.ok -> term
          [] ~comparison.ok -> comparison
          [] ~equality.ok -> equality
          [] ~logicalAnd.ok -> logicalAnd
          [] level <= 1 -> binaryLoop(toks, logicalAnd, 1)
          [] OTHER -> logicalAnd

\* logicalOr (level 1), logicalAnd, equality, comparison, term, factor
\* (level 6): the level above and then the loop of the level; above factor is
\* unary
binary(toks, s, level) == levels(toks, unary(toks, s), level)

logicalOr(toks, s) == binary(toks, s, 1)

\* if (match(EQUAL)) { ... } of assignment (parser.cpp:363-376)
assignmentRest(toks, s) ==
    IF s.ok
    THEN IF check(toks, s, "EQUAL")
         THEN Reduce(Parse("assignment", toks, advance(toks, s)), "Assign")
         ELSE s
    ELSE s

assignment(toks, s) == assignmentRest(toks, logicalOr(toks, s))

\* if (match(QUESTION)) { ... } of ternary (parser.cpp:350-355)
ternaryRest(toks, s) ==
    IF s.ok
    THEN IF check(toks, s, "QUESTION")
         THEN Reduce(Parse("ternary", toks,
                           consume(toks, Parse("expression", toks, advance(toks, s)),
                                   "COLON")),
                     "Ternary")
         ELSE s
    ELSE s

ternary(toks, s) == ternaryRest(toks, assignment(toks, s))

expression(toks, s) == ternary(toks, s)

printStatement(toks, s) ==
    Closed(toks, Parse("expression", toks, s), "NEWLINE", "Print")

returnStatement(toks, s) ==
    Closed(toks,
           IF ~check(toks, s, "NEWLINE") THEN Parse("expression", toks, s)
           ELSE Push(s, Null),
           "NEWLINE", "Return")

\* if (match(EQUAL)) initializer = expression(); (parser.cpp:79-82)
initializer(toks, s) ==
    IF s.ok
    THEN IF check(toks, s, "EQUAL") THEN Parse("expression", toks, advance(toks, s))
         ELSE Push(s, Null)
    ELSE s

varDeclaration(toks, s) ==
    Closed(toks, initializer(toks, Name(toks, s)), "NEWLINE", "Var")

expressionStatement(toks, s) ==
    Closed(toks, Parse("expression", toks, s), "NEWLINE", "Expression")

functionStatement(toks, s) ==
    Reduce(blockStatement(toks,
               consume(toks, consume(toks, consume(toks, consume(toks,
                   parameters(toks, consume(toks, Name(toks, s), "LEFT_PAREN"), TRUE),
                   "RIGHT_PAREN"), "COLON"), "NEWLINE"), "LEFT_BRACE")),
           "Function")

\* if (match(ELSE)) { ... elseBranch = statement(); } (parser.cpp:128-134)
elseBranch(toks, s) ==
    IF s.ok
    THEN IF check(toks, s, "ELSE")
         THEN Parse("statement", toks,
                    consume(toks, consume(toks, advance(toks, s), "COLON"), "NEWLINE"))
         ELSE Push(s, Null)
    ELSE s

ifStatement(toks, s) ==
    Reduce(elseBranch(toks,
               Parse("statement", toks,
                     consume(toks, consume(toks, Parse("expression", toks, s),
                                           "COLON"), "NEWLINE"))),
           "If")

\* the first node is the position of the while keyword; WhileStmt itself keeps
\* no token
whileStatement(toks, s) ==
    Reduce(Parse("statement", toks,
                 consume(toks, consume(toks,
                     Parse("expression", toks, Push(s, s.pos - 1)),
                     "COLON"), "NEWLINE")),
           "While")

\* if (!check(end)) clause = expression(); (parser.cpp:156-165)
clause(toks, s, end) ==
    IF s.ok
    THEN IF ~check(toks, s, end) THEN Parse("expression", toks, s)
         ELSE Push(s, Null)
    ELSE s

forStatement(toks, s) ==
    Reduce(Parse("statement", toks,
               consume(toks, consume(toks,
                   clause(toks,
                       consume(toks,
                           clause(toks,
                               consume(toks,
                                   Parse("expression", toks,
                                         consume(toks, Name(toks, Push(s, s.pos - 1)),
                                                 "EQUAL")),
                                   "SEMICOLON"),
                               "SEMICOLON"),
                           "SEMICOLON"),
                       "COLON"),
                   "COLON"), "NEWLINE")),
           "For")

\* while (!check(RIGHT_BRACE) && !isAtEnd()) { ... functionStatement("method") }
methodLoop(toks, s) ==
    IF s.ok
    THEN CASE check(toks, s, "RIGHT_BRACE") \/ isAtEnd(toks, s) -> s
           [] check(toks, s, "NEWLINE") -> methodLoop(toks, advance(toks, s))
           [] OTHER -> methodLoop(toks, Collected(functionStatement(toks, s)))
    ELSE s

\* if (match(EXTENDS)) { ... } (parser.cpp:194-198)
superclass(toks, s) ==
    IF s.ok
    THEN IF check(toks, s, "EXTENDS")
         THEN Reduce(Name(toks, advance(toks, s)), "Variable")
         ELSE Push(s, Null)
    ELSE s

classDeclaration(toks, s) ==
    Closed(toks,
           methodLoop(toks,
               Push(consume(toks, consume(toks, consume(toks,
                        superclass(toks, Name(toks, s)),
                        "COLON"), "NEWLINE"), "LEFT_BRACE"),
                    <<>>)),
           "RIGHT_BRACE", "Class")

\* if (match(AS)) alias = consume(IDENTIFIER); (parser.cpp:219-221)
alias(toks, s) ==
    IF s.ok
    THEN IF check(toks, s, "AS") THEN Name(toks, advance(toks, s))
         ELSE Push(s, "")
    ELSE s

importStatement(toks, s) ==
    Closed(toks, alias(toks, Name(toks, s)), "NEWLINE", "Import")

\* if (match(LEFT_PAREN)) { catchVar = consume(IDENTIFIER); consume(RIGHT_PAREN) }
catchVariable(toks, s) ==
    IF check(toks, s, "LEFT_PAREN")
    THEN consume(toks, Name(toks, advance(toks, s)), "RIGHT_PAREN")
    ELSE Push(s, "")

\* if (match(FINALLY)) { ... finallyBlock = statement(); } (parser.cpp:246-251)
\* and the TryStmt; s is the parser after the catch clause
finallyClause(toks, s) ==
    IF s.ok
    THEN IF check(toks, s, "FINALLY")
         THEN Reduce(Parse("statement", toks,
                           consume(toks, consume(toks, advance(toks, s), "COLON"),
                                   "NEWLINE")),
                     "Try")
         ELSE Reduce(Push(s, Null), "Try")
    ELSE s

\* if (match(CATCH)) { ... catchBlock = statement(); } (parser.cpp:236-244) and
\* what follows it; s is the parser after the try block
catchClause(toks, s) ==
    IF s.ok
    THEN IF check(toks, s, "CATCH")
         THEN finallyClause(toks,
                  Parse("statement", toks,
                        consume(toks, consume(toks,
                            catchVariable(toks, advance(toks, s)),
                            "COLON"), "NEWLINE")))
         ELSE finallyClause(toks, Push(Push(s, ""), Null))
    ELSE s

tryStatement(toks, s) ==
    catchClause(toks,
        Parse("statement", toks, consume(toks, consume(toks, s, "COLON"), "NEWLINE")))

throwStatement(toks, s) ==
    Closed(toks, Parse("expression", toks, s), "NEWLINE", "Throw")

\* the loop of switchStatement (parser.cpp:271-287); on the node stack are the
\* vector of cases and, on top, the default case
switchLoop(toks, s) ==
    IF s.ok
    THEN CASE check(toks, s, "RIGHT_BRACE") \/ isAtEnd(toks, s) -> s
           [] check(toks, s, "NEWLINE") -> switchLoop(toks, advance(toks, s))
           [] check(toks, s, "CASE") ->
                switchLoop(toks,
                    Reduce(Parse("statement", toks,
                               consume(toks, consume(toks,
                                   Parse("expression", toks, advance(toks, s)),
                                   "COLON"), "NEWLINE")),
                           "Case"))
           [] check(toks, s, "DEFAULT") ->
                switchLoop(toks,
                    Reduce(Parse("statement", toks,
                               consume(toks, consume(toks, advance(toks, s), "COLON"),
                                       "NEWLINE")),
                           "Default"))
           [] OTHER -> s
    ELSE s

switchStatement(toks, s) ==
    Closed(toks,
           switchLoop(toks,
               Push(Push(consume(toks, consume(toks, consume(toks,
                             Parse("expression", toks, s),
                             "COLON"), "NEWLINE"), "LEFT_BRACE"),
                         <<>>),
                    Null)),
           "RIGHT_BRACE", "Switch")

statement(toks, s) ==
    CASE check(toks, s, "TRY") -> tryStatement(toks, advance(toks, s))
      [] check(toks, s, "THROW") -> throwStatement(toks, advance(toks, s))
      [] check(toks, s, "SWITCH") -> switchStatement(toks, advance(toks, s))
      [] check(toks, s, "IF") -> ifStatement(toks, advance(toks, s))
      [] check(toks, s, "PRINT") -> printStatement(toks, advance(toks, s))
      [] check(toks, s, "RETURN") -> returnStatement(toks, advance(toks, s))
      [] check(toks, s, "WHILE") -> whileStatement(toks, advance(toks, s))
      [] check(toks, s, "FOR") -> forStatement(toks, advance(toks, s))
      [] check(toks, s, "LEFT_BRACE") -> blockStatement(toks, advance(toks, s))
      [] OTHER -> expressionStatement(toks, s)

\* while (!isAtEnd()) of synchronize (parser.cpp:654-672)
syncLoop(toks, s) ==
    CASE isAtEnd(toks, s) -> s
      [] previous(toks, s).type = "NEWLINE" -> s
      [] peek(toks, s).type \in {"CLASS", "FUNCTION", "VAR", "FOR", "IF", "WHILE",
                                 "PRINT", "RETURN"} -> s
      [] OTHER -> syncLoop(toks, advance(toks, s))

synchronize(toks, s) == syncLoop(toks, advance(toks, s))

\* catch (const ParseError&) { synchronize(); return nullptr; } of declaration
\* (parser.cpp:38-41): r is the parser as the try block left it, out the nodes
\* at entry
Recover(toks, r, out) ==
    IF r.ok THEN r
    ELSE IF r.fatal THEN r
    ELSE Push(synchronize(toks, [r EXCEPT !.ok = TRUE, !.out = out]), Null)

declaration(toks, s) ==
    Recover(toks,
            CASE check(toks, s, "CLASS") -> classDeclaration(toks, advance(toks, s))
              [] check(toks, s, "IMPORT") -> importStatement(toks, advance(toks, s))
              [] check(toks, s, "FUNCTION") ->
                    functionStatement(toks, advance(toks, s))
              [] checkAny(toks, s, {"VAR", "LET"}) ->
                    varDeclaration(toks, advance(toks, s))
              [] OTHER -> statement(toks, s),
            s.out)

\* a call of a parsing function from inside the parser; after an exception
\* nothing more is parsed
Parse(rule, toks, s) ==
    CASE ~s.ok -> s
      [] rule = "expression" -> expression(toks, s)
      [] rule = "ternary" -> ternary(toks, s)
      [] rule = "assignment" -> assignment(toks, s)
      [] rule = "statement" -> statement(toks, s)
      [] OTHER -> declaration(toks, s)

\* catch (const ParseError&) { synchronize(); } of Parser::parse
\* (parser.cpp:20-22)
Caught(toks, r, out) ==
    IF r.ok THEN r
    ELSE IF r.fatal THEN r
    ELSE Push(synchronize(toks, [r EXCEPT !.ok = TRUE, !.out = out]), Null)

RECURSIVE parseLoop(_, _)
\* while (!isAtEnd()) of Parser::parse; the statement vector is on top
parseLoop(toks, s) ==
    IF s.ok
    THEN CASE s.stuck \/ isAtEnd(toks, s) -> s
           [] check(toks, s, "NEWLINE") -> parseLoop(toks, advance(toks, s))
           [] OTHER ->
                parseLoop(toks,
                    Iterated(Caught(toks, Parse("declaration", toks, s), s.out),
                             s.pos))
    ELSE s

\* what parse() leaves: the statements are the one node left; escaped is TRUE
\* when an exception leaves parse(), fatal when it is no ParseError
Outcome(s) ==
    [statements |-> IF s.ok THEN Top(s) ELSE <<>>, had |-> s.had,
     thrown |-> s.thrown, stuck |-> s.stuck, escaped |-> ~s.ok, fatal |-> s.fatal,
     pos |-> s.pos, depth |-> Len(s.out)]

\* Parser::parse
parse(toks) == Outcome(parseLoop(toks, Push(PState(1), <<>>)))

(***************************************************************************)
(* Value (src/src/runtime/value.cpp).  Numbers are the integers the        *)
(* programs below use.                                                     *)
(***************************************************************************)
isTruthy(v) ==
    CASE v.t = "nil" -> FALSE
      [] v.t = "bool" -> v.b
      [] v.t = "num" -> v.n # 0
      [] v.t = "str" -> v.s # ""
      [] OTHER -> TRUE

RECURSIVE toString(_)
RECURSIVE Listed(_)
\* the elements of a list as Value::toString writes them (value.cpp:73-76)
Listed(items) ==
    IF items = <<>> THEN ""
    ELSE IF Len(items) = 1 THEN toString(items[1])
    ELSE toString(items[1]) \o ", " \o Listed(Tail(items))

toString(v) ==
    CASE v.t = "nil" -> "nil"
      [] v.t = "bool" -> IF v.b THEN "true" ELSE "false"
      [] v.t = "num" -> ToString(v.n)
      [] v.t = "str" -> v.s
      [] v.t = "callable" -> "<function>"
      [] v.t = "list" -> "[" \o Listed(v.items) \o "]"
      [] OTHER -> "<unknown>"

getType(v) ==
    CASE v.t = "nil" -> "nil"
      [] v.t = "bool" -> "boolean"
      [] v.t = "num" -> "number"
      [] v.t = "str" -> "string"
      [] v.t = "callable" -> "function"
      [] v.t = "list" -> "list"
      [] OTHER -> "unknown"

\* Value::operator== (value.cpp:93-104): values of different alternatives
\* differ; nil, booleans, numbers and strings are compared by content,
\* callables by the identity of the object; for the alternatives the function
\* has no line for (a class, an instance) the result is false
isEqual(a, b) ==
    IF a.t # b.t THEN FALSE
    ELSE CASE a.t \in {"nil", "bool", "num", "str"} -> a = b
           [] a.t = "callable" -> a.c = b.c /\ a.id = b.id
           [] a.t = "list" -> a.id = b.id
           [] OTHER -> FALSE

\* Value(error.what()), interpreter.cpp:401: the argument is a const char*.
\* Of the explicit constructors (value.hpp:29-31) Value(bool) takes it by a
\* standard conversion (pointer to bool) and Value(const std::string&) only by a
\* user-defined one, so overload resolution selects Value(bool): the value is
\* the boolean true whatever the text.
ValueOfCString(text) == BoolV(TRUE)

(***************************************************************************)
(* Exceptions (src/src/error/exceptions.hpp).  RuntimeError, ReturnValue   *)
(* and the std::runtime_error of the builtins are three unrelated classes  *)
(* below std::runtime_error.                                               *)
(***************************************************************************)
NoSig == [t |-> "none", msg |-> "", value |-> Nil]

RuntimeError(msg) == [t |-> "RuntimeError", msg |-> msg, value |-> Nil]

ReturnValue(value) == [t |-> "ReturnValue", msg |-> "return", value |-> value]

StdRuntimeError(msg) == [t |-> "std::runtime_error", msg |-> msg, value |-> Nil]

(***************************************************************************)
(* Environment (runtime/environment.hpp is not among the sources; modelled *)
(* from the specification, sections 3 and 4.4).  The heap envs is a        *)
(* sequence of environments, an environment id is its index, 0 is no       *)
(* environment.                                                            *)
(***************************************************************************)
Environment(enclosing) == [enclosing |-> enclosing, values |-> <<>>]

define(heap, e, name, value) ==
    [heap EXCEPT ![e].values = (name :> value) @@ @]

RECURSIVE Resolve(_, _, _)
\* the nearest scope from e outwards that defines name, 0 if none
Resolve(heap, e, name) ==
    IF e = 0 THEN 0
    ELSE IF name \in DOMAIN heap[e].values THEN e
    ELSE Resolve(heap, heap[e].enclosing, name)

IsDefined(heap, e, name) == Resolve(heap, e, name) # 0

get(heap, e, name) == heap[Resolve(heap, e, name)].values[name]

\* an assignment that writes the current scope, whatever scope defines name
assignHere(heap, e, name, value) == define(heap, e, name, value)

assign(heap, e, name, value) ==
    [heap EXCEPT ![Resolve(heap, e, name)].values[name] = value]

(***************************************************************************)
(* Callables (src/src/runtime/callable.cpp, native_functions.cpp).         *)
(***************************************************************************)
NativeNames ==
    {"print", "input", "len", "str", "num", "type", "clock", "range", "map",
     "filter"}

\* the builtins are made once, by the constructor of the interpreter: the
\* name tells the objects apart
NativeFunction(name) ==
    [t |-> "callable", c |-> "NativeFunction", name |-> name, id |-> name]

\* a Function object: declaration is a plain pointer to the FunctionStmt node,
\* owner is the object that node belongs to (0: the statements of runFile or
\* runPrompt, k: the body of Lambda object k), id tells the objects apart
Function(stmt, owner, closure, id) ==
    [t |-> "callable", c |-> "Function", declaration |-> stmt, owner |-> owner,
     closure |-> closure, id |-> id]

\* a Lambda object (callable.cpp:144-145): it holds its parameters and its body
Lambda(params, body, closure, id) ==
    [t |-> "callable", c |-> "Lambda", params |-> params, body |-> body,
     closure |-> closure, id |-> id]

\* a FocusClass object held by Value(std::shared_ptr<FocusClass>)
\* (value.hpp:34): the alternative of the variant is the class one, not the
\* callable one
FocusClass(name, parent, methods, id) ==
    [t |-> "class", name |-> name, superclass |-> parent, methods |-> methods,
     id |-> id]

\* a FocusInstance object held by Value(std::shared_ptr<FocusInstance>)
FocusInstance(klass, id) == [t |-> "instance", klass |-> klass, id |-> id]

\* a BoundMethod object (callable.cpp:114-115): the instance and the method
BoundMethod(instance, method, id) ==
    [t |-> "callable", c |-> "BoundMethod", instance |-> instance, method |-> method,
     id |-> id]

\* Value::isCallable (value.cpp:21-23)
isCallable(v) == v.t = "callable"

\* Value::isClass and Value::isInstance (declared at value.hpp:44-45)
isClass(v) == v.t = "class"

isInstance(v) == v.t = "instance"

\* the parameters and the body a call of a Function, a Lambda or a
\* BoundMethod runs
Params(callee) ==
    CASE callee.c = "Lambda" -> callee.params
      [] callee.c = "BoundMethod" -> callee.method.declaration.params
      [] OTHER -> callee.declaration.params

Body(callee) ==
    CASE callee.c = "Lambda" -> callee.body
      [] callee.c = "BoundMethod" -> callee.method.declaration.body
      [] OTHER -> callee.declaration.body

\* the arity_ each create...Function passes to NativeFunction
NativeArity(name) ==
    CASE name \in {"print", "input", "range"} -> -1
      [] name = "clock" -> 0
      [] name \in {"map", "filter"} -> 2
      [] OTHER -> 1

arity(callee) ==
    IF callee.c = "NativeFunction" THEN NativeArity(callee.name)
    ELSE Len(Params(callee))

\* a find that looks at the class's own methods only
findOwnMethod(klass, name) ==
    IF name \in DOMAIN klass.methods THEN klass.methods[name] ELSE Null

RECURSIVE findMethod(_, _)
\* FocusClass::findMethod (callable.cpp:75-86): the class's own method, else
\* the superclass's; Null when no class of the chain has one
findMethod(klass, name) ==
    IF name \in DOMAIN klass.methods THEN klass.methods[name]
    ELSE IF klass.superclass # Null THEN findMethod(klass.superclass, name)
    ELSE Null

\* FocusClass::arity (callable.cpp:55-59)
ClassArity(klass) ==
    IF findMethod(klass, "init") = Null THEN 0 ELSE arity(findMethod(klass, "init"))

NativeOk(value) == [ok |-> TRUE, value |-> value, msg |-> ""]

NativeThrow(msg) == [ok |-> FALSE, value |-> Nil, msg |-> msg]

\* map or filter given a callable and a list: the call passes the argument
\* validation (native_functions.cpp:156-162, 183-189) and reaches the loop
Iterates(name, args) ==
    /\ name \in {"map", "filter"}
    /\ Len(args) = 2 /\ isCallable(args[1]) /\ args[2].t = "list"

\* The bodies of the builtins that return without calling back into the
\* interpreter.  input, clock and range read the outside world or build lists
\* and are not called by the programs below; of map and filter this is the
\* argument validation (native_functions.cpp:156-162, 183-189).
NativeBody(name, args) ==
    CASE name = "print" -> NativeOk(Nil)
      [] name = "len" ->
            IF Len(args) # 1 THEN NativeThrow("len() takes exactly one argument")
            ELSE IF args[1].t = "str" THEN NativeOk(NumV(Len(args[1].s)))
            ELSE IF args[1].t = "list" THEN NativeOk(NumV(Len(args[1].items)))
            ELSE NativeThrow("Object of type '" \o getType(args[1]) \o "' has no len()")
      [] name = "str" ->
            IF Len(args) # 1 THEN NativeThrow("str() takes exactly one argument")
            ELSE NativeOk(StrV(toString(args[1])))
      [] name = "num" ->
            IF Len(args) # 1 THEN NativeThrow("num() takes exactly one argument")
            ELSE IF args[1].t = "num" THEN NativeOk(args[1])
            ELSE NativeThrow("Cannot convert " \o getType(args[1]) \o " to number")
      [] name = "type" ->
            IF Len(args) # 1 THEN NativeThrow("type() takes exactly one argument")
            ELSE NativeOk(StrV(getType(args[1])))
      [] name \in {"map", "filter"} /\ ~Iterates(name, args) ->
            IF Len(args) # 2 THEN NativeThrow(name \o "() takes exactly 2 arguments")
            ELSE NativeThrow(name \o "() requires a function and a list")
      [] OTHER -> NativeOk(Nil)

\* what a builtin call can be decided from: everything but a string handed to
\* num (std::stod)
NativeModelled(name, args) ==
    /\ name \in {"print", "len", "str", "num", "type", "map", "filter"}
    /\ name = "num" => (Len(args) = 1 => args[1].t # "str")

(***************************************************************************)
(* Interpreter (src/src/interpreter.cpp): operators on values.             *)
(***************************************************************************)
Ok(value) == [ok |-> TRUE, value |-> value, msg |-> ""]

Err(msg) == [ok |-> FALSE, value |-> Nil, msg |-> msg]

checkNumberOperands(left, right) == left.t = "num" /\ right.t = "num"

\* Interpreter::visitBinaryExpr after both operands are evaluated
\* (interpreter.cpp:67-138); the parser builds these operators only
BinaryOp(op, left, right) ==
    CASE op \in {"GREATER", "GREATER_EQUAL", "LESS", "LESS_EQUAL", "MINUS", "STAR"} ->
            IF ~checkNumberOperands(left, right) THEN Err("Operands must be numbers")
            ELSE CASE op = "GREATER" -> Ok(BoolV(left.n > right.n))
                   [] op = "GREATER_EQUAL" -> Ok(BoolV(left.n >= right.n))
                   [] op = "LESS" -> Ok(BoolV(left.n < right.n))
                   [] op = "LESS_EQUAL" -> Ok(BoolV(left.n <= right.n))
                   [] op = "MINUS" -> Ok(NumV(left.n - right.n))
                   [] OTHER -> Ok(NumV(left.n * right.n))
      [] op = "BANG_EQUAL" -> Ok(BoolV(~isEqual(left, right)))
      [] op = "EQUAL_EQUAL" -> Ok(BoolV(isEqual(left, right)))
      [] op = "PLUS" ->
            IF left.t = "num" /\ right.t = "num" THEN Ok(NumV(left.n + right.n))
            ELSE IF left.t = "str" \/ right.t = "str"
            THEN Ok(StrV(toString(left) \o toString(right)))
            ELSE Err("Operands must be two numbers or strings")
      [] op = "SLASH" ->
            IF ~checkNumberOperands(left, right) THEN Err("Operands must be numbers")
            ELSE IF right.n = 0 THEN Err("Division by zero")
            ELSE Ok(NumV(left.n \div right.n))
      [] op = "AND" -> IF ~isTruthy(left) THEN Ok(left) ELSE Ok(right)
      [] op = "OR" -> IF isTruthy(left) THEN Ok(left) ELSE Ok(right)
      [] OTHER -> Ok(Nil)

\* Interpreter::visitUnaryExpr (interpreter.cpp:141-158)
UnaryOp(op, right) ==
    CASE op = "BANG" -> Ok(BoolV(~isTruthy(right)))
      [] op = "MINUS" -> IF right.t # "num" THEN Err("Operand must be a number")
                         ELSE Ok(NumV(0 - right.n))
      [] OTHER -> Ok(Nil)

\* the sub-expressions a visit evaluates before anything else, in order
Operands(e) ==
    CASE e.k = "Binary" -> <<e.left, e.right>>
      [] e.k = "Unary" -> <<e.right>>
      [] e.k = "Grouping" -> <<e.expression>>
      [] e.k = "Assign" -> <<e.value>>
      [] e.k = "Call" -> <<e.callee>> \o e.arguments
      [] e.k = "Ternary" -> <<e.condition>>
      [] e.k = "List" -> e.elements
      [] e.k = "Index" -> <<e.object, e.index>>
      [] OTHER -> <<>>

(***************************************************************************)
(* Activations.  The stack holds one frame per C++ activation:             *)
(*   interpret      Interpreter::interpret, i the next statement           *)
(*   exec           a visit...Stmt, at its position in the method          *)
(*   executeBlock   Interpreter::executeBlock, i the next statement        *)
(*   eval           a visit...Expr, vals the operand values so far         *)
(*   call           Function::call                                         *)
(* entry (the environment current when the activation began) and g (what   *)
(* the activation has done so far) are history, not read by the program.   *)
(***************************************************************************)
InterpretFrame == [fn |-> "interpret", i |-> 1]

ExecFrame(stmt, env) ==
    [fn |-> "exec", stmt |-> stmt, at |-> "start", previous |-> 0, entry |-> env,
     switchValue |-> Nil, i |-> 0,
     g |-> [raised |-> "none", catchRuns |-> 0, finallyRuns |-> 0, conds |-> 0,
            catchEntry |-> 0, inits |-> 0, bodies |-> 0, incrs |-> 0, scope |-> 0,
            names |-> {}, discs |-> 0, tested |-> <<>>, equal |-> <<>>, ran |-> <<>>]]

BlockFrame(stmts, env) ==
    [fn |-> "executeBlock", statements |-> stmts, i |-> 1, previous |-> env,
     entry |-> env]

EvalFrame(expr) ==
    [fn |-> "eval", expr |-> expr, vals |-> <<>>, wait |-> FALSE, called |-> FALSE]

\* owner: the object the statements of the body belong to; callee: the
\* callable whose call this is
CallFrame(env, owner, callee) ==
    [fn |-> "call", entry |-> env, owner |-> owner, callee |-> callee]

\* the lambda of createMapFunction or createFilterFunction in its loop over
\* the list: i items are done, result is the new list so far, called says
\* that the call for item i has returned; g.calls keeps item and result of
\* each call
NativeFrame(name, func, list) ==
    [fn |-> "native", name |-> name, func |-> func, list |-> list, i |-> 0,
     result |-> <<>>, called |-> FALSE, g |-> [calls |-> <<>>]]

TopF == stack[Len(stack)]

Popped == SubSeq(stack, 1, Len(stack) - 1)

Replaced(f) == [stack EXCEPT ![Len(stack)] = f]

Pushed(f, child) == Append(Replaced(f), child)

Running(fn) ==
    pc = "running" /\ stack # <<>> /\ sig.t = "none" /\ TopF.fn = fn

Unwinding(fn) ==
    pc = "running" /\ stack # <<>> /\ sig.t # "none" /\ TopF.fn = fn

Executing(kind) == Running("exec") /\ TopF.stmt.k = kind

\* the operand values of the eval frame on top, with the one just returned
Vals == IF TopF.wait THEN Append(TopF.vals, ret) ELSE TopF.vals

\* a handler that stops every exception, as catch (const std::exception&)
\* would: what visitTryStmt's handler is compared with
CatchesEveryException(s) == s.t # "none"

\* catch (const RuntimeError& error) of visitTryStmt (interpreter.cpp:397)
CatchesRuntimeError(s) == s.t = "RuntimeError"

\* a handler that rethrows without the assignment: what executeBlock's
\* handler is compared with
BlockCatchAllRethrowOnly(f, current) == current

\* catch (...) { this->environment = previous; throw; } of executeBlock
\* (interpreter.cpp:47-50): the environment after the handler
BlockCatchAll(f, current) == f.previous

\* the history record of a frame that ends with signal s in flight
\* the object the statements being executed belong to: that of the innermost
\* call, 0 outside every call
CodeOwner ==
    LET calls == {i \in DOMAIN stack : stack[i].fn = "call"}
    IN  IF calls = {} THEN 0
        ELSE stack[CHOOSE i \in calls : \A j \in calls : j <= i].owner

Finished(f, s) ==
    IF f.fn = "exec" /\ f.stmt.k = "Try"
    THEN <<[k |-> "Try", hasCatch |-> f.stmt.catchBlock # Null,
            hasFinally |-> f.stmt.finallyBlock # Null,
            raised |-> IF f.at = "tried" THEN s.t ELSE f.g.raised,
            catchRuns |-> f.g.catchRuns, finallyRuns |-> f.g.finallyRuns,
            exit |-> s.t]>>
    ELSE IF f.fn = "exec" /\ f.stmt.k = "Switch"
    THEN <<[k |-> "Switch", stmt |-> f.stmt, g |-> f.g, exit |-> s.t]>>
    ELSE IF f.fn = "exec" /\ f.stmt.k \in {"While", "For"}
    THEN <<[k |-> "Loop", tok |-> f.stmt.tok, conds |-> f.g.conds,
            bodies |-> f.g.bodies, incrs |-> f.g.incrs, exit |-> s.t]>>
    ELSE <<>>

CallDepth == Cardinality({i \in DOMAIN stack : stack[i].fn = "call"})

console == <<stdin, line, cin>>

process == <<pc, source, tokens, statements, parsed, hadError, argc, exitCode, console>>

driver == <<process, objects>>

io == <<errout, output, hadRuntimeError>>

(***************************************************************************)
(* main and runFile (src/src/main.cpp).  The script is given as the        *)
(* sequence of lexemes that Lexer::scanTokens divides it into.             *)
(***************************************************************************)
Unexpected(lexeme) == lexeme.type = "CHAR"

Scanned(lexeme) == lexeme.type # "CHAR"

\* Lexer::scanTokens: every lexeme gives its token, a character that begins no
\* token is reported with ErrorHandler::error and gives none (lexer.cpp:215),
\* and the end-of-input token is added (lexer.cpp:221)
scanTokens(text) ==
    [tokens |-> SelectSeq(text, Scanned) \o <<EOF>>,
     errors |-> Len(SelectSeq(text, Unexpected))]

\* main.cpp:81-83
Usage ==
    /\ pc = "main" /\ argc > 2
    /\ output' = Append(output, "Usage: focusNexus [script]")
    /\ exitCode' = 64
    /\ pc' = "exit"
    /\ UNCHANGED <<source, tokens, statements, parsed, hadError, hadRuntimeError, errout,
                   environment, envs, stack, sig, ret, hist, argc, console, objects>>

\* main.cpp:84-85 and runFile up to the parser (main.cpp:11-16)
RunFile ==
    /\ pc = "main" /\ argc = 2
    /\ tokens' = scanTokens(source).tokens
    /\ hadError' = (scanTokens(source).errors > 0)
    /\ errout' = errout \o [i \in 1..scanTokens(source).errors |->
                               [kind |-> "Error", msg |-> "Unexpected character"]]
    /\ pc' = IF hadError' THEN "returned" ELSE "parse"
    /\ UNCHANGED <<source, statements, parsed, hadRuntimeError, output, exitCode,
                   environment, envs, stack, sig, ret, hist, argc, console, objects>>

\* the diagnostics of a parse: ErrorHandler::error of Parser::assignment
\* (parser.cpp:375), and what runFile's catch (const std::exception& e) prints
\* for an exception that left parse() (main.cpp:26-28)
ParseDiagnostics(p) ==
    (IF p.had THEN <<[kind |-> "Error", msg |-> "Invalid assignment target"]>>
     ELSE <<>>)
    \o (IF p.escaped THEN <<[kind |-> "Error:", msg |-> "stod"]>> ELSE <<>>)

\* parser.parse() and the test that follows (main.cpp:18-21)
ParseFile ==
    /\ pc = "parse"
    /\ parsed' = parse(tokens)
    /\ statements' = parsed'.statements
    /\ hadError' = (hadError \/ parsed'.had)
    /\ errout' = errout \o ParseDiagnostics(parsed')
    /\ pc' = IF hadError' \/ parsed'.escaped THEN "returned" ELSE "construct"
    /\ UNCHANGED <<source, tokens, hadRuntimeError, output, exitCode, environment, envs,
                   stack, sig, ret, hist, argc, console, objects>>

\* Interpreter::Interpreter (interpreter.cpp:10-25) and the call of interpret
Construct ==
    /\ pc = "construct"
    /\ envs' = <<[enclosing |-> 0,
                  values |-> [n \in NativeNames |-> NativeFunction(n)]]>>
    /\ environment' = 1
    /\ stack' = <<InterpretFrame>>
    /\ pc' = "running"
    /\ UNCHANGED <<source, tokens, statements, parsed, hadError, hadRuntimeError, errout,
                   output, exitCode, sig, ret, hist, argc, console, objects>>

\* interpret returned: runFile returns (main.cpp:24-25)
RunFileReturn ==
    /\ pc = "running" /\ argc = 2 /\ stack = <<>> /\ sig.t = "none"
    /\ pc' = "returned"
    /\ UNCHANGED <<source, tokens, statements, parsed, hadError, hadRuntimeError, errout,
                   output, exitCode, environment, envs, stack, sig, ret, hist, argc, console, objects>>

\* catch (const std::exception& e) of runFile (main.cpp:26-28); RuntimeError,
\* ReturnValue and std::runtime_error are all std::exceptions
RunFileCatch ==
    /\ pc = "running" /\ argc = 2 /\ stack = <<>> /\ sig.t # "none"
    /\ errout' = Append(errout, [kind |-> "Error:", msg |-> sig.msg])
    /\ sig' = NoSig
    /\ pc' = "returned"
    /\ UNCHANGED <<source, tokens, statements, parsed, hadError, hadRuntimeError, output,
                   exitCode, environment, envs, stack, ret, hist, argc, console, objects>>

\* main.cpp:86-87 and 92; after runPrompt main returns 0 (main.cpp:88-92)
MainReturn ==
    /\ pc = "returned"
    /\ exitCode' = IF argc = 2 /\ hadError THEN 65
                   ELSE IF argc = 2 /\ hadRuntimeError THEN 70 ELSE 0
    /\ pc' = "exit"
    /\ UNCHANGED <<source, tokens, statements, parsed, hadError, hadRuntimeError, errout,
                   output, environment, envs, stack, sig, ret, hist, argc, console, objects>>

(***************************************************************************)
(* runPrompt (main.cpp:31-78).  Standard input is a sequence of lines;     *)
(* final says that the last of them is not ended by a newline.             *)
(***************************************************************************)
MaxFailedReads == 2

\* the two flags of ErrorHandler
Flags(error, runtimeError) == [hadError |-> error, hadRuntimeError |-> runtimeError]

\* a reset that leaves the flags as they are
resetKeeps(flags) == flags

\* ErrorHandler::reset (error_handler.hpp:18): the flags after it
reset(flags) == Flags(FALSE, FALSE)

\* std::getline(std::cin, line): with the stream good the line is replaced by
\* the next line of input, or by nothing at end-of-input; with eofbit or
\* failbit set nothing is extracted and line keeps its contents
getline ==
    IF cin.state # "good" THEN line
    ELSE IF stdin.lines = <<>> THEN <<>>
    ELSE Head(stdin.lines)

\* the stream after that getline: reading up to end-of-input sets eofbit, a
\* read that extracts nothing sets failbit
After ==
    IF cin.state # "good" THEN [state |-> "fail", failed |-> cin.failed + 1]
    ELSE IF stdin.lines = <<>> THEN [state |-> "fail", failed |-> cin.failed + 1]
    ELSE IF Len(stdin.lines) = 1 /\ stdin.final THEN [cin EXCEPT !.state = "eof"]
    ELSE cin

\* main.cpp:88-89 and runPrompt up to the loop (main.cpp:32-36)
RunPrompt ==
    /\ pc = "main" /\ argc = 1
    /\ output' = output \o <<"Focus Nexus Interactive Interpreter v1.0",
                              "Type 'exit' to quit">>
    /\ envs' = <<[enclosing |-> 0,
                  values |-> [n \in NativeNames |-> NativeFunction(n)]]>>
    /\ environment' = 1
    /\ pc' = "prompt"
    /\ UNCHANGED <<source, tokens, statements, parsed, hadError, hadRuntimeError, errout,
                   exitCode, stack, sig, ret, hist, argc, console, objects>>

\* one pass of the loop up to the parser (main.cpp:39-60)
ReadLine ==
    /\ pc = "prompt"
    /\ cin.failed < MaxFailedReads
    /\ output' = Append(output, "> ")
    /\ cin' = After
    /\ stdin' = IF cin.state = "good" /\ stdin.lines # <<>>
                THEN [stdin EXCEPT !.lines = Tail(@)] ELSE stdin
    /\ LET text == getline \o <<NL>>
           quits == getline \in {<<Id("exit")>>, <<Id("quit")>>}
           reads == ~quits /\ getline # <<>>
       IN  /\ line' = IF reads THEN text ELSE getline
           /\ tokens' = IF reads THEN scanTokens(text).tokens ELSE tokens
           /\ errout' = IF reads
                        THEN errout \o [i \in 1..scanTokens(text).errors |->
                                          [kind |-> "Error", msg |-> "Unexpected character"]]
                        ELSE errout
           /\ pc' = IF quits THEN "returned"
                    ELSE IF reads /\ scanTokens(text).errors = 0 THEN "parseline"
                    ELSE "prompt"
           /\ IF reads /\ scanTokens(text).errors > 0
              THEN /\ hadError' = reset(Flags(TRUE, hadRuntimeError)).hadError
                   /\ hadRuntimeError' =
                          reset(Flags(TRUE, hadRuntimeError)).hadRuntimeError
              ELSE UNCHANGED <<hadError, hadRuntimeError>>
    /\ UNCHANGED <<source, statements, parsed, exitCode, environment, envs, stack, sig,
                   ret, hist, argc, objects>>

\* parser.parse(), the test that follows and the call of interpret
\* (main.cpp:62-70); an exception that leaves parse() is caught at main.cpp:72
ParseLine ==
    /\ pc = "parseline"
    /\ parsed' = parse(tokens)
    /\ errout' = errout \o ParseDiagnostics(parsed')
    /\ IF parsed'.had \/ parsed'.escaped
       THEN /\ pc' = "prompt"
            /\ hadError' =
                   reset(Flags(hadError \/ parsed'.had, hadRuntimeError)).hadError
            /\ hadRuntimeError' =
                   reset(Flags(hadError \/ parsed'.had, hadRuntimeError)).hadRuntimeError
            /\ UNCHANGED <<statements, stack>>
       ELSE /\ pc' = "running"
            /\ statements' = parsed'.statements
            /\ stack' = <<InterpretFrame>>
            /\ UNCHANGED <<hadError, hadRuntimeError>>
    /\ UNCHANGED <<source, tokens, output, exitCode, environment, envs, sig, ret, hist,
                   argc, console, objects>>

\* interpret returned: the statements of the line are destroyed at the end of
\* the try block, then ErrorHandler::reset() (main.cpp:70-76)
PromptReturn ==
    /\ pc = "running" /\ argc = 1 /\ stack = <<>> /\ sig.t = "none"
    /\ statements' = <<>>
    /\ hadError' = reset(Flags(hadError, hadRuntimeError)).hadError
    /\ hadRuntimeError' = reset(Flags(hadError, hadRuntimeError)).hadRuntimeError
    /\ pc' = "prompt"
    /\ UNCHANGED <<source, tokens, parsed, errout, output, exitCode, environment, envs,
                   stack, sig, ret, hist, argc, console, objects>>

\* catch (const std::exception& e) of runPrompt (main.cpp:72-76)
PromptCatch ==
    /\ pc = "running" /\ argc = 1 /\ stack = <<>> /\ sig.t # "none"
    /\ errout' = Append(errout, [kind |-> "Error:", msg |-> sig.msg])
    /\ sig' = NoSig
    /\ statements' = <<>>
    /\ hadError' = reset(Flags(hadError, hadRuntimeError)).hadError
    /\ hadRuntimeError' = reset(Flags(hadError, hadRuntimeError)).hadRuntimeError
    /\ pc' = "prompt"
    /\ UNCHANGED <<source, tokens, parsed, output, exitCode, environment, envs, stack,
                   ret, hist, argc, console, objects>>

(***************************************************************************)
(* Interpreter: statements.                                                *)
(***************************************************************************)
\* Interpreter::interpret, the loop (interpreter.cpp:29-31)
Interpret ==
    /\ Running("interpret")
    /\ stack' = IF TopF.i <= Len(statements)
                THEN Pushed([TopF EXCEPT !.i = @ + 1],
                            ExecFrame(statements[TopF.i], environment))
                ELSE Popped
    /\ UNCHANGED <<driver, io, environment, envs, sig, ret, hist>>

\* catch (const RuntimeError& error) of interpret (interpreter.cpp:32-34) with
\* ErrorHandler::runtimeError (error_handler.cpp:20-24)
InterpretCatch ==
    /\ Unwinding("interpret") /\ sig.t = "RuntimeError"
    /\ errout' = Append(errout, [kind |-> "Runtime Error", msg |-> sig.msg])
    /\ hadRuntimeError' = TRUE
    /\ sig' = NoSig
    /\ stack' = Popped
    /\ UNCHANGED <<driver, output, environment, envs, ret, hist>>

\* whether frame f is inside a try block of its activation that handles s
HasHandler(f, s) ==
    \/ f.fn = "executeBlock"
    \/ f.fn = "exec" /\ f.stmt.k = "For" /\ f.at # "start"
    \/ f.fn = "exec" /\ f.stmt.k = "Try" /\ f.at = "tried" /\ CatchesRuntimeError(s)
    \/ f.fn = "exec" /\ f.stmt.k = "Try" /\ f.at = "catch"
    \/ f.fn = "call" /\ s.t = "ReturnValue"
    \/ f.fn = "interpret" /\ s.t = "RuntimeError"

\* an exception leaves an activation that does not handle it
Propagate ==
    /\ pc = "running" /\ stack # <<>> /\ sig.t # "none"
    /\ ~HasHandler(TopF, sig)
    /\ stack' = Popped
    /\ hist' = hist \o Finished(TopF, sig)
    /\ UNCHANGED <<driver, io, environment, envs, sig, ret>>

\* Interpreter::executeBlock, the loop and the restore (interpreter.cpp:44-52);
\* previous and this->environment were set when the frame was made
ExecuteBlock ==
    /\ Running("executeBlock")
    /\ IF TopF.i <= Len(TopF.statements)
       THEN /\ stack' = Pushed([TopF EXCEPT !.i = @ + 1],
                               ExecFrame(TopF.statements[TopF.i], environment))
            /\ environment' = environment
       ELSE /\ stack' = Popped
            /\ environment' = TopF.previous
    /\ UNCHANGED <<driver, io, envs, sig, ret, hist>>

UnwindBlock ==
    /\ Unwinding("executeBlock")
    /\ environment' = BlockCatchAll(TopF, environment)
    /\ stack' = Popped
    /\ UNCHANGED <<driver, io, envs, sig, ret, hist>>

\* the expression a simple statement evaluates first
StmtOperand(s) ==
    CASE s.k \in {"Expression", "Print"} -> s.expression
      [] s.k = "Var" -> s.initializer
      [] s.k = "Class" -> s.superclass
      [] OTHER -> s.value

ExecOperand ==
    /\ Running("exec") /\ TopF.at = "start"
    /\ TopF.stmt.k \in {"Expression", "Print", "Var", "Throw", "Return", "Class"}
    /\ StmtOperand(TopF.stmt) # Null
    /\ stack' = Pushed([TopF EXCEPT !.at = "eval"], EvalFrame(StmtOperand(TopF.stmt)))
    /\ UNCHANGED <<driver, io, environment, envs, sig, ret, hist>>

Evaluated(kind) ==
    /\ Executing(kind)
    /\ TopF.at = "eval" \/ StmtOperand(TopF.stmt) = Null

OperandValue == IF TopF.at = "eval" THEN ret ELSE Nil

\* interpreter.cpp:279-281
VisitExpressionStmt ==
    /\ Evaluated("Expression")
    /\ stack' = Popped
    /\ UNCHANGED <<driver, io, environment, envs, sig, ret, hist>>

\* interpreter.cpp:283-286
VisitPrintStmt ==
    /\ Evaluated("Print")
    /\ output' = Append(output, toString(OperandValue))
    /\ stack' = Popped
    /\ UNCHANGED <<driver, errout, hadRuntimeError, environment, envs, sig, ret, hist>>

\* interpreter.cpp:288-295
VisitVarStmt ==
    /\ Evaluated("Var")
    /\ envs' = define(envs, environment, TopF.stmt.name, OperandValue)
    /\ stack' = Popped
    /\ UNCHANGED <<driver, io, environment, sig, ret, hist>>

\* interpreter.cpp:421-424
VisitThrowStmt ==
    /\ Evaluated("Throw")
    /\ sig' = RuntimeError(toString(OperandValue))
    /\ stack' = Popped
    /\ UNCHANGED <<driver, io, environment, envs, ret, hist>>

\* interpreter.cpp:350-357
VisitReturnStmt ==
    /\ Evaluated("Return")
    /\ sig' = ReturnValue(OperandValue)
    /\ stack' = Popped
    /\ hist' = Append(hist, [k |-> "Return", depth |-> CallDepth])
    /\ UNCHANGED <<driver, io, environment, envs, ret>>

\* interpreter.cpp:345-348
VisitFunctionStmt ==
    /\ Executing("Function")
    /\ envs' = define(envs, environment, TopF.stmt.name,
                      Function(TopF.stmt, CodeOwner, environment, objects.count + 1))
    /\ objects' = [objects EXCEPT !.count = @ + 1]
    /\ stack' = Popped
    /\ UNCHANGED <<process, io, environment, sig, ret, hist>>

RECURSIVE MethodTable(_, _, _, _, _)
\* the loop of visitClassStmt over the methods (interpreter.cpp:373-379): each
\* FunctionStmt gives a Function closed over the current environment, a later
\* method replaces an earlier one of the same name
MethodTable(methods, i, owner, closure, made) ==
    IF i > Len(methods) THEN <<>>
    ELSE (methods[i].name :> Function(methods[i], owner, closure, made + i))
         @@ MethodTable(methods, i + 1, owner, closure, made)

\* interpreter.cpp:359-383
VisitClassStmt ==
    /\ Evaluated("Class")
    /\ IF TopF.stmt.superclass # Null /\ ~isClass(OperandValue)
       THEN /\ sig' = RuntimeError("Superclass must be a class")
            /\ UNCHANGED <<envs, objects>>
       ELSE /\ envs' =
                 assign(define(envs, environment, TopF.stmt.name, Nil), environment,
                        TopF.stmt.name,
                        FocusClass(TopF.stmt.name,
                                   IF TopF.stmt.superclass # Null THEN OperandValue
                                   ELSE Null,
                                   MethodTable(TopF.stmt.methods, 1, CodeOwner,
                                               environment, objects.count),
                                   objects.count + Len(TopF.stmt.methods) + 1))
            /\ objects' = [objects EXCEPT
                              !.count = @ + Len(TopF.stmt.methods) + 1]
            /\ sig' = sig
    /\ stack' = Popped
    /\ UNCHANGED <<process, io, environment, ret, hist>>

\* interpreter.cpp:297-299 with the entry of executeBlock (interpreter.cpp:39-42)
VisitBlockStmt ==
    /\ Executing("Block")
    /\ IF TopF.at = "start"
       THEN /\ envs' = Append(envs, Environment(environment))
            /\ environment' = Len(envs) + 1
            /\ stack' = Pushed([TopF EXCEPT !.at = "done"],
                               BlockFrame(TopF.stmt.statements, environment))
       ELSE /\ stack' = Popped
            /\ UNCHANGED <<envs, environment>>
    /\ UNCHANGED <<driver, io, sig, ret, hist>>

\* interpreter.cpp:301-307
VisitIfStmt ==
    /\ Executing("If")
    /\ stack' =
         CASE TopF.at = "start" ->
                Pushed([TopF EXCEPT !.at = "test"], EvalFrame(TopF.stmt.condition))
           [] TopF.at = "test" /\ isTruthy(ret) ->
                Pushed([TopF EXCEPT !.at = "done"],
                       ExecFrame(TopF.stmt.thenBranch, environment))
           [] TopF.at = "test" /\ ~isTruthy(ret) /\ TopF.stmt.elseBranch # Null ->
                Pushed([TopF EXCEPT !.at = "done"],
                       ExecFrame(TopF.stmt.elseBranch, environment))
           [] OTHER -> Popped
    /\ UNCHANGED <<driver, io, environment, envs, sig, ret, hist>>

\* a switch statement that would go on with the next case after a body
CaseFallsThrough(f) == [f EXCEPT !.at = "next"]

\* execute(*caseStmt.second); return; (interpreter.cpp:433-434): the
\* activation once the body of the matching case is started
CaseReturn(f) == [f EXCEPT !.at = "done"]

\* interpreter.cpp:426-440: the discriminant (start, disc), the next case
\* expression or the default body (next), the comparison and the body of the
\* case (test), the end (done)
VisitSwitchStmt ==
    /\ Executing("Switch")
    /\ LET cases == TopF.stmt.cases
       IN  stack' =
             CASE TopF.at = "start" ->
                    Pushed([TopF EXCEPT !.at = "disc", !.g.discs = @ + 1],
                           EvalFrame(TopF.stmt.expr))
               [] TopF.at = "disc" ->
                    Replaced([TopF EXCEPT !.at = "next", !.switchValue = ret])
               [] TopF.at = "next" /\ TopF.i < Len(cases) ->
                    Pushed([TopF EXCEPT !.at = "test", !.i = @ + 1,
                                        !.g.tested = Append(@, TopF.i + 1)],
                           EvalFrame(cases[TopF.i + 1][1]))
               [] TopF.at = "next" /\ TopF.i >= Len(cases)
                                  /\ TopF.stmt.defaultCase # Null ->
                    Pushed([TopF EXCEPT !.at = "done", !.g.ran = Append(@, 0)],
                           ExecFrame(TopF.stmt.defaultCase, environment))
               [] TopF.at = "test" /\ isEqual(TopF.switchValue, ret) ->
                    Pushed(CaseReturn([TopF EXCEPT !.g.ran = Append(@, TopF.i),
                                                   !.g.equal = Append(@, TRUE)]),
                           ExecFrame(cases[TopF.i][2], environment))
               [] TopF.at = "test" ->
                    Replaced([TopF EXCEPT !.at = "next", !.g.equal = Append(@, FALSE)])
               [] OTHER -> Popped
    /\ hist' = IF Len(stack') < Len(stack) THEN hist \o Finished(TopF, sig) ELSE hist
    /\ UNCHANGED <<driver, io, environment, envs, sig, ret>>

\* interpreter.cpp:309-313
VisitWhileStmt ==
    /\ Executing("While")
    /\ IF TopF.at = "start"
       THEN /\ stack' = Pushed([TopF EXCEPT !.at = "test", !.g.conds = @ + 1],
                               EvalFrame(TopF.stmt.condition))
            /\ hist' = hist
       ELSE IF isTruthy(ret)
       THEN /\ stack' = Pushed([TopF EXCEPT !.at = "start"],
                               ExecFrame(TopF.stmt.body, environment))
            /\ hist' = hist
       ELSE /\ stack' = Popped
            /\ hist' = hist \o Finished(TopF, sig)
    /\ UNCHANGED <<driver, io, environment, envs, sig, ret>>

\* a for statement that would run its initializer in the scope it is in
ForScopeShared(current, fresh) == current

\* environment = forEnvironment (interpreter.cpp:320): the scope of the
\* initializer, the condition, the body and the increment
ForScope(current, fresh) == fresh

\* interpreter.cpp:315-343, the normal path
VisitForStmt ==
    /\ Executing("For")
    /\ CASE TopF.at = "start" ->
              /\ envs' = Append(envs, Environment(environment))
              /\ environment' = ForScope(environment, Len(envs) + 1)
              /\ LET f == [TopF EXCEPT !.at = "cond", !.previous = environment,
                                       !.g.scope = Len(envs) + 1,
                                       !.g.names = DOMAIN envs[environment].values,
                                       !.g.inits = IF TopF.stmt.initializer # Null
                                                   THEN 1 ELSE 0]
                 IN  stack' = IF TopF.stmt.initializer # Null
                              THEN Pushed(f, ExecFrame(TopF.stmt.initializer,
                                                       environment'))
                              ELSE Replaced(f)
              /\ hist' = hist
         [] TopF.at = "cond" /\ TopF.stmt.condition # Null ->
              /\ stack' = Pushed([TopF EXCEPT !.at = "test", !.g.conds = @ + 1],
                                 EvalFrame(TopF.stmt.condition))
              /\ UNCHANGED <<envs, environment, hist>>
         [] TopF.at = "test" /\ ~isTruthy(ret) ->
              /\ environment' = TopF.previous
              /\ stack' = Popped
              /\ hist' = hist \o Finished(TopF, sig)
              /\ envs' = envs
         [] TopF.at = "incr" ->
              /\ stack' = IF TopF.stmt.increment # Null
                          THEN Pushed([TopF EXCEPT !.at = "cond", !.g.incrs = @ + 1],
                                      EvalFrame(TopF.stmt.increment))
                          ELSE Replaced([TopF EXCEPT !.at = "cond"])
              /\ UNCHANGED <<envs, environment, hist>>
         [] OTHER ->
              /\ stack' = Pushed([TopF EXCEPT !.at = "incr", !.g.bodies = @ + 1],
                                 ExecFrame(TopF.stmt.body, environment))
              /\ UNCHANGED <<envs, environment, hist>>
    /\ UNCHANGED <<driver, io, sig, ret>>

\* a handler of visitForStmt that would rethrow without the restore
ForCatchAllRethrowOnly(f, current) == current

\* catch (...) { environment = previous; throw; } of visitForStmt
\* (interpreter.cpp:337-340): the environment after the handler
ForCatchAll(f, current) == f.previous

UnwindFor ==
    /\ Unwinding("exec") /\ TopF.stmt.k = "For" /\ TopF.at # "start"
    /\ environment' = ForCatchAll(TopF, environment)
    /\ stack' = Popped
    /\ hist' = hist \o Finished(TopF, sig)
    /\ UNCHANGED <<driver, io, envs, sig, ret>>

\* interpreter.cpp:394-419, the normal path: the try block (at start); after
\* the try block (tried), the catch block (catch) or a handler that did nothing
\* (swallowed) the finally block; after that (finally) the end
VisitTryStmt ==
    /\ Executing("Try")
    /\ environment' = IF TopF.at = "catch" THEN TopF.previous ELSE environment
    /\ IF TopF.at = "start"
       THEN /\ stack' = Pushed([TopF EXCEPT !.at = "tried"],
                               ExecFrame(TopF.stmt.tryBlock, environment))
            /\ hist' = hist
       ELSE IF TopF.at # "finally" /\ TopF.stmt.finallyBlock # Null
       THEN /\ stack' = Pushed([TopF EXCEPT !.at = "finally", !.g.finallyRuns = @ + 1],
                               ExecFrame(TopF.stmt.finallyBlock, environment'))
            /\ hist' = hist
       ELSE /\ stack' = Popped
            /\ hist' = hist \o Finished(TopF, sig)
    /\ UNCHANGED <<driver, io, envs, sig, ret>>

\* catch (const RuntimeError& error) with a catch block (interpreter.cpp:397-407)
TryCatch ==
    /\ Unwinding("exec") /\ TopF.stmt.k = "Try" /\ TopF.at = "tried"
    /\ CatchesRuntimeError(sig)
    /\ TopF.stmt.catchBlock # Null
    /\ LET catchEnv == Len(envs) + 1
           heap == Append(envs, Environment(environment))
           var == TopF.stmt.catchVar
       IN  /\ envs' = IF var # "" THEN define(heap, catchEnv, var, ValueOfCString(sig.msg))
                      ELSE heap
           /\ environment' = catchEnv
           /\ stack' = Pushed([TopF EXCEPT !.at = "catch", !.previous = environment,
                                           !.g.raised = sig.t, !.g.catchRuns = @ + 1,
                                           !.g.catchEntry = environment],
                              ExecFrame(TopF.stmt.catchBlock, catchEnv))
           /\ hist' = Append(hist, [k |-> "Catch", var |-> var, msg |-> sig.msg,
                                    bound |-> ValueOfCString(sig.msg),
                                    env |-> catchEnv, enclosing |-> environment,
                                    fresh |-> catchEnv \notin DOMAIN envs])
    /\ sig' = NoSig
    /\ UNCHANGED <<driver, io, ret>>

\* catch (const RuntimeError& error) without a catch block: the handler body is
\* skipped and the statement goes on after the handler (interpreter.cpp:397-398)
TrySwallow ==
    /\ Unwinding("exec") /\ TopF.stmt.k = "Try" /\ TopF.at = "tried"
    /\ CatchesRuntimeError(sig)
    /\ TopF.stmt.catchBlock = Null
    /\ stack' = Replaced([TopF EXCEPT !.at = "swallowed", !.g.raised = sig.t])
    /\ sig' = NoSig
    /\ UNCHANGED <<driver, io, environment, envs, ret, hist>>

\* catch (...) { environment = previous; throw; } (interpreter.cpp:408-411)
UnwindCatch ==
    /\ Unwinding("exec") /\ TopF.stmt.k = "Try" /\ TopF.at = "catch"
    /\ environment' = TopF.previous
    /\ stack' = Popped
    /\ hist' = hist \o Finished(TopF, sig)
    /\ UNCHANGED <<driver, io, envs, sig, ret>>

(***************************************************************************)
(* Interpreter: expressions and calls.                                     *)
(***************************************************************************)
\* evaluate(*child) for the next operand of the expression on top
EvaluateOperand ==
    /\ Running("eval") /\ ~TopF.called
    /\ Len(Vals) < Len(Operands(TopF.expr))
    /\ stack' = Pushed([TopF EXCEPT !.vals = Vals, !.wait = TRUE],
                       EvalFrame(Operands(TopF.expr)[Len(Vals) + 1]))
    /\ UNCHANGED <<driver, io, environment, envs, sig, ret, hist>>

Visiting(kind) ==
    /\ Running("eval") /\ ~TopF.called
    /\ TopF.expr.k = kind
    /\ Len(Vals) = Len(Operands(TopF.expr))

\* interpreter.cpp:160-162
VisitLiteralExpr ==
    /\ Visiting("Literal")
    /\ ret' = TopF.expr.value
    /\ stack' = Popped
    /\ UNCHANGED <<driver, io, environment, envs, sig, hist>>

\* interpreter.cpp:168-170; Environment::get raises a runtime error for a name
\* no scope of the chain defines
VisitVariableExpr ==
    /\ Visiting("Variable")
    /\ IF IsDefined(envs, environment, TopF.expr.name)
       THEN ret' = get(envs, environment, TopF.expr.name) /\ sig' = sig
       ELSE ret' = ret
            /\ sig' = RuntimeError("Undefined variable '" \o TopF.expr.name \o "'")
    /\ stack' = Popped
    /\ UNCHANGED <<driver, io, environment, envs, hist>>

\* interpreter.cpp:275-277: the keyword is looked up like a variable
VisitThisExpr ==
    /\ Visiting("This")
    /\ IF IsDefined(envs, environment, "this")
       THEN ret' = get(envs, environment, "this") /\ sig' = sig
       ELSE ret' = ret /\ sig' = RuntimeError("Undefined variable 'this'")
    /\ stack' = Popped
    /\ UNCHANGED <<driver, io, environment, envs, hist>>

\* interpreter.cpp:63-139
VisitBinaryExpr ==
    /\ Visiting("Binary")
    /\ LET r == BinaryOp(TopF.expr.operator_, Vals[1], Vals[2])
       IN  IF r.ok THEN ret' = r.value /\ sig' = sig
           ELSE ret' = ret /\ sig' = RuntimeError(r.msg)
    /\ stack' = Popped
    /\ UNCHANGED <<driver, io, environment, envs, hist>>

\* interpreter.cpp:209-217: a new vector with the values of the elements
VisitListExpr ==
    /\ Visiting("List")
    /\ ret' = ListV(Vals, objects.count + 1)
    /\ objects' = [objects EXCEPT !.count = @ + 1]
    /\ stack' = Popped
    /\ UNCHANGED <<process, io, environment, envs, sig, hist>>

IntMax == 2147483647

IntMin == -IntMax - 1

\* static_cast<int>(index.asNumber()) (interpreter.cpp:234).  For a number
\* beyond the range of int the conversion is undefined: cvttsd2si of x86-64
\* yields INT_MIN, the saturating fcvtzs of AArch64 yields INT_MAX
ToInt(v) == IF v # WideV THEN {v.n} ELSE {IntMin, IntMax}

\* a bounds check that would begin at 1
InRangeFromOne(idx, size) == ~(idx < 1 \/ idx >= size)

\* idx < 0 || idx >= static_cast<int>(list->size()) (interpreter.cpp:236),
\* negated
InRange(idx, size) == ~(idx < 0 \/ idx >= size)

\* interpreter.cpp:219-242
VisitIndexExpr ==
    /\ Visiting("Index")
    /\ LET object == Vals[1]
           index == Vals[2]
       IN  IF object.t # "list"
           THEN sig' = RuntimeError("Only lists can be indexed") /\ ret' = ret
           ELSE IF index.t # "num"
           THEN sig' = RuntimeError("List index must be a number") /\ ret' = ret
           ELSE \E idx \in ToInt(index) :
                   IF InRange(idx, Len(object.items))
                   THEN ret' = object.items[idx + 1] /\ sig' = sig
                   ELSE sig' = RuntimeError("List index out of range") /\ ret' = ret
    /\ stack' = Popped
    /\ UNCHANGED <<driver, io, environment, envs, hist>>

\* interpreter.cpp:172-176; Environment::assign raises a runtime error for a
\* name no scope of the chain defines
VisitAssignExpr ==
    /\ Visiting("Assign")
    /\ IF IsDefined(envs, environment, TopF.expr.name)
       THEN /\ envs' = assign(envs, environment, TopF.expr.name, Vals[1])
            /\ ret' = Vals[1]
            /\ sig' = sig
       ELSE /\ sig' = RuntimeError("Undefined variable '" \o TopF.expr.name \o "'")
            /\ UNCHANGED <<envs, ret>>
    /\ stack' = Popped
    /\ UNCHANGED <<driver, io, environment, hist>>

\* the body the LambdaExpr node has when visitLambdaExpr runs: std::move of
\* expr.body into the parameter of Lambda's constructor leaves the node's
\* vector empty, so only the first evaluation of a node finds the parsed body
NodeBody(expr) == IF expr.tok \in objects.moved THEN <<>> ELSE expr.body

\* interpreter.cpp:244-246 with Lambda::Lambda (callable.cpp:144-145)
VisitLambdaExpr ==
    /\ Visiting("Lambda")
    /\ ret' = Lambda(TopF.expr.params, NodeBody(TopF.expr), environment,
                     objects.count + 1)
    /\ objects' = [objects EXCEPT !.count = @ + 1,
                                  !.lambdas = @ \cup {objects.count + 1},
                                  !.moved = @ \cup {TopF.expr.tok}]
    /\ stack' = Popped
    /\ UNCHANGED <<process, io, environment, envs, sig, hist>>

\* value holds Lambda object k
Holds(value, k) == isCallable(value) /\ value.c = "Lambda" /\ value.id = k

\* some Value still holds Lambda object k: a binding of an environment, an
\* operand or a callee of a visit under way, the value being returned
Referenced(k) ==
    \/ \E e \in DOMAIN envs : \E n \in DOMAIN envs[e].values :
          Holds(envs[e].values[n], k)
    \/ \E i \in DOMAIN stack :
          /\ stack[i].fn = "eval"
          /\ \E j \in DOMAIN stack[i].vals : Holds(stack[i].vals[j], k)
    \/ Holds(ret, k)
    \/ sig.t = "ReturnValue" /\ Holds(sig.value, k)

\* the Lambda objects that are destroyed, and with them the statements of
\* their bodies: the last shared_ptr to them is gone
Released == {k \in objects.lambdas : ~Referenced(k)}

\* a call of a Function whose FunctionStmt was destroyed with the Lambda that
\* owned it: Function::arity and Function::call read the freed node
\* (callable.cpp:12-24).  The behaviour is undefined: the call may go on as if
\* the node were there (VisitCallExpr) or the process may be ended
CallReleased ==
    /\ Visiting("Call")
    /\ isCallable(Vals[1]) /\ Vals[1].c = "Function"
    /\ Vals[1].owner \in Released
    /\ pc' = "crashed"
    /\ UNCHANGED <<source, tokens, statements, parsed, hadError, argc, exitCode, console,
                   objects, io, environment, envs, stack, sig, ret, hist>>

RECURSIVE Joined(_)
\* the line the print builtin writes (native_functions.cpp:9-13)
Joined(args) ==
    IF args = <<>> THEN ""
    ELSE IF Len(args) = 1 THEN toString(args[1])
    ELSE toString(args[1]) \o " " \o Joined(Tail(args))

RECURSIVE Bound(_, _, _, _, _)
\* the loop of Function::call that defines the parameters (callable.cpp:19-21)
Bound(heap, e, params, args, i) ==
    IF i > Len(params) THEN heap
    ELSE Bound(define(heap, e, params[i], args[i]), e, params, args, i + 1)

\* a visitCallExpr that does not compare the number of arguments with the arity
CallOutcomeAnyCount(callee, args) ==
    IF ~isCallable(callee) THEN "not callable" ELSE callee.c

\* what visitCallExpr does once callee and arguments are evaluated
\* (interpreter.cpp:186-196)
CallOutcome(callee, args) ==
    IF ~isCallable(callee) THEN "not callable"
    ELSE IF arity(callee) # -1 /\ Len(args) # arity(callee) THEN "arity"
    ELSE callee.c

\* a call whose environment would have the caller's environment as parent
CallParentDynamic(callee, current) == current

\* std::make_shared<Environment>(closure) of Function::call and Lambda::call
\* (callable.cpp:17, 151) and std::make_shared<Environment>(
\* method->getClosure()) of BoundMethod::call (callable.cpp:122): the parent
\* of the environment of a call
CallParent(callee, current) ==
    IF callee.c = "BoundMethod" THEN callee.method.closure ELSE callee.closure

\* environment->define("this", instance) of BoundMethod::call
\* (callable.cpp:123)
WithThis(heap, e, callee) ==
    IF callee.c = "BoundMethod" THEN define(heap, e, "this", callee.instance) ELSE heap

\* the object the body of a callee belongs to: the Lambda itself, or whatever
\* the FunctionStmt belongs to
BodyOwner(callee) ==
    CASE callee.c = "Lambda" -> callee.id
      [] callee.c = "BoundMethod" -> callee.method.owner
      [] OTHER -> callee.owner

\* interpreter.cpp:178-197 with NativeFunction::call and the entry of
\* Function::call or Lambda::call (callable.cpp:16-24, 150-158) and of
\* executeBlock (interpreter.cpp:39-42)
VisitCallExpr ==
    /\ Visiting("Call")
    /\ LET callee == Vals[1]
           args == SubSeq(Vals, 2, Len(Vals))
           how == CallOutcome(callee, args)
           callEnv == Len(envs) + 1
       IN  /\ how = "NativeFunction" => NativeModelled(callee.name, args)
           /\ CASE how = "not callable" ->
                     /\ sig' = RuntimeError("Can only call functions and classes")
                     /\ stack' = Popped
                     /\ UNCHANGED <<envs, environment, ret, output>>
                [] how = "arity" ->
                     /\ sig' = RuntimeError("Expected " \o ToString(arity(callee))
                                  \o " arguments but got " \o ToString(Len(args)))
                     /\ stack' = Popped
                     /\ UNCHANGED <<envs, environment, ret, output>>
                [] how = "NativeFunction" /\ Iterates(callee.name, args) ->
                     /\ stack' = Append(Replaced([TopF EXCEPT !.vals = Vals,
                                                              !.wait = FALSE,
                                                              !.called = TRUE]),
                                        NativeFrame(callee.name, args[1], args[2]))
                     /\ UNCHANGED <<envs, environment, ret, output, sig>>
                [] how = "NativeFunction" /\ ~Iterates(callee.name, args) ->
                     /\ output' = IF callee.name = "print"
                                  THEN Append(output, Joined(args)) ELSE output
                     /\ IF NativeBody(callee.name, args).ok
                        THEN ret' = NativeBody(callee.name, args).value /\ sig' = sig
                        ELSE ret' = ret
                             /\ sig' = StdRuntimeError(NativeBody(callee.name, args).msg)
                     /\ stack' = Popped
                     /\ UNCHANGED <<envs, environment>>
                [] OTHER ->
                     /\ envs' = Bound(WithThis(Append(envs, Environment(
                                                   CallParent(callee, environment))),
                                               callEnv, callee),
                                      callEnv,
                                      Params(callee), args, 1)
                     /\ environment' = callEnv
                     /\ stack' = Replaced([TopF EXCEPT !.vals = Vals, !.wait = FALSE,
                                                       !.called = TRUE])
                                 \o <<CallFrame(environment, BodyOwner(callee), callee),
                                      BlockFrame(Body(callee), environment)>>
                     /\ UNCHANGED <<sig, ret, output>>
    /\ UNCHANGED <<driver, errout, hadRuntimeError, hist>>

\* the values a read beyond the end of the argument vector may yield
Garbage == {Nil, NumV(0)}

\* std::vector<Value> args = {item} (native_functions.cpp:168, 195): the
\* arguments of the call for one item.  Function::call and Lambda::call read
\* arguments[i] for every parameter (callable.cpp:19-21, 153-155); the reads
\* beyond the one argument are undefined, and rest stands for what they yield
ItemArguments(item, params, rest) ==
    <<item>> \o [j \in 1..(Len(params) - 1) |-> rest]

\* a map that would collect the items instead of the results
GatheredItems(name, result, item, value) == Append(result, item)

\* result->push_back(func->call(interpreter, args)) of map
\* (native_functions.cpp:169) and if (...isTruthy()) result->push_back(item)
\* of filter (native_functions.cpp:196-198)
Gathered(name, result, item, value) ==
    IF name = "map" THEN Append(result, value)
    ELSE IF isTruthy(value) THEN Append(result, item) ELSE result

\* the call func->call(interpreter, args) for the next item
\* (native_functions.cpp:167-169, 194-196): no arity is compared
NativeLoop ==
    /\ Running("native") /\ ~TopF.called /\ TopF.i < Len(TopF.list.items)
    /\ LET func == TopF.func
           item == TopF.list.items[TopF.i + 1]
           next == [TopF EXCEPT !.i = @ + 1, !.called = TRUE]
           callEnv == Len(envs) + 1
       IN  IF func.c = "NativeFunction"
           THEN /\ NativeModelled(func.name, <<item>>)
                /\ ~Iterates(func.name, <<item>>)
                /\ output' = IF func.name = "print"
                             THEN Append(output, Joined(<<item>>)) ELSE output
                /\ IF NativeBody(func.name, <<item>>).ok
                   THEN ret' = NativeBody(func.name, <<item>>).value /\ sig' = sig
                   ELSE ret' = ret
                        /\ sig' = StdRuntimeError(NativeBody(func.name, <<item>>).msg)
                /\ stack' = Replaced(next)
                /\ UNCHANGED <<envs, environment>>
           ELSE /\ \E rest \in Garbage :
                     envs' = Bound(Append(envs, Environment(
                                              CallParent(func, environment))),
                                   callEnv, Params(func),
                                   ItemArguments(item, Params(func), rest), 1)
                /\ environment' = callEnv
                /\ stack' = Replaced(next)
                            \o <<CallFrame(environment, BodyOwner(func), func),
                                 BlockFrame(Body(func), environment)>>
                /\ UNCHANGED <<sig, ret, output>>
    /\ UNCHANGED <<driver, errout, hadRuntimeError, hist>>

\* arguments[i] read beyond the end of the vector of one argument
\* (callable.cpp:20, 154) may also end the process
NativeLoopCrash ==
    /\ Running("native") /\ ~TopF.called /\ TopF.i < Len(TopF.list.items)
    /\ TopF.func.c \in {"Function", "Lambda"} /\ Len(Params(TopF.func)) > 1
    /\ pc' = "crashed"
    /\ UNCHANGED <<source, tokens, statements, parsed, hadError, argc, exitCode, console,
                   objects, io, environment, envs, stack, sig, ret, hist>>

\* the call for item i has returned: its result is collected
NativeCollect ==
    /\ Running("native") /\ TopF.called
    /\ stack' = Replaced([TopF EXCEPT
                            !.called = FALSE,
                            !.result = Gathered(TopF.name, @, TopF.list.items[TopF.i],
                                                  ret),
                            !.g.calls = Append(@, [item |-> TopF.list.items[TopF.i],
                                                   value |-> ret])])
    /\ UNCHANGED <<driver, io, environment, envs, sig, ret, hist>>

\* return Value(result) (native_functions.cpp:172, 201): a new list
NativeReturn ==
    /\ Running("native") /\ ~TopF.called /\ TopF.i >= Len(TopF.list.items)
    /\ ret' = ListV(TopF.result, objects.count + 1)
    /\ objects' = [objects EXCEPT !.count = @ + 1]
    /\ hist' = Append(hist, [k |-> "Native", name |-> TopF.name, list |-> TopF.list,
                             calls |-> TopF.g.calls, value |-> ret'])
    /\ stack' = Popped
    /\ UNCHANGED <<process, io, environment, envs, sig>>

\* return function->call(*this, arguments) (interpreter.cpp:196)
CallReturned ==
    /\ Running("eval") /\ TopF.called
    /\ stack' = Popped
    /\ UNCHANGED <<driver, io, environment, envs, sig, ret, hist>>

\* return {}; of Function::call (callable.cpp:29)
CallEnd ==
    /\ Running("call")
    /\ ret' = Nil
    /\ stack' = Popped
    /\ hist' = Append(hist, [k |-> "Call", how |-> "end", value |-> Nil,
                             depth |-> CallDepth])
    /\ UNCHANGED <<driver, io, environment, envs, sig>>

\* catch (const ReturnValue& returnValue) of Function::call (callable.cpp:25-27)
CallCatch ==
    /\ Unwinding("call") /\ sig.t = "ReturnValue"
    /\ ret' = sig.value
    /\ sig' = NoSig
    /\ stack' = Popped
    /\ hist' = Append(hist, [k |-> "Call", how |-> "return", value |-> sig.value,
                             depth |-> CallDepth])
    /\ UNCHANGED <<driver, io, environment, envs>>

(***************************************************************************)
(* The programs that are run: source files as the scanner hands them to    *)
(* the parser.  A program is one statement, nested up to MaxDepth deep,    *)
(* followed by  print "after".                                             *)
(***************************************************************************)
MaxDepth == 2

PrintLine(text) == <<T("PRINT"), Str(text), NL>>

\* throw "boom"
ThrowLine == <<T("THROW"), Str("boom"), NL>>

\* return 7
ReturnLine == <<T("RETURN"), NumTok(7), NL>>

\* len(1): a builtin given an argument of the wrong kind
LenLine == <<Id("len"), T("LEFT_PAREN"), NumTok(1), T("RIGHT_PAREN"), NL>>

\* break
BreakLine == <<T("BREAK"), NL>>

\* var = 1: the name is missing
BadLine == <<T("VAR"), T("EQUAL"), NumTok(1), NL>>

\* 1 = 2: not an assignment target
TargetLine == <<NumTok(1), T("EQUAL"), NumTok(2), NL>>

\* print 99...9, with more digits than a double can hold
HugeLine == <<T("PRINT"), HugeTok, NL>>

\* print "in" #: a character that begins no token
CharLine == <<T("PRINT"), Str("in"), Tok("CHAR", "#"), NL>>

\* name = name + 1
Increment(name) == <<Id(name), T("EQUAL"), Id(name), T("PLUS"), NumTok(1)>>

Braces(body) == <<T("LEFT_BRACE")>> \o body \o <<T("RIGHT_BRACE")>>

CatchClause(body) ==
    <<T("CATCH"), T("LEFT_PAREN"), Id("e"), T("RIGHT_PAREN"), T("COLON"), NL>>
    \o Braces(body)

FinallyClause(body) == <<T("FINALLY"), T("COLON"), NL>> \o Braces(body)

TryClause(body) == <<T("TRY"), T("COLON"), NL>> \o Braces(body)

\* the statements that have body inside them
Wrappers(body) ==
    << Braces(body) \o <<NL>>,
      TryClause(body) \o FinallyClause(PrintLine("finally")) \o <<NL>>,
      TryClause(body) \o CatchClause(<<T("PRINT"), Id("e"), NL>>)
          \o FinallyClause(PrintLine("finally")) \o <<NL>>,
      TryClause(ThrowLine) \o CatchClause(body)
          \o FinallyClause(PrintLine("finally")) \o <<NL>>,
      <<T("VAR"), Id("i"), T("EQUAL"), NumTok(0), NL, T("WHILE"), Id("i"), T("LESS"),
        NumTok(2), T("COLON"), NL>> \o Braces(Increment("i") \o <<NL>> \o body)
          \o <<NL>>,
      <<T("FOR"), Id("j"), T("EQUAL"), NumTok(0), T("SEMICOLON"), Id("j"), T("LESS"),
        NumTok(2), T("SEMICOLON")>> \o Increment("j") \o <<T("COLON"), NL>>
          \o Braces(body) \o <<NL>>,
      <<T("FUNCTION"), Id("f"), T("LEFT_PAREN"), T("RIGHT_PAREN"), T("COLON"), NL>>
          \o Braces(body) \o <<NL, T("PRINT"), Id("f"), T("LEFT_PAREN"),
                               T("RIGHT_PAREN"), NL>>,
      <<T("IF"), NumTok(1), T("LESS"), NumTok(2), T("COLON"), NL>> \o Braces(body)
          \o <<NL>> >>

Wrapped(body) == {Wrappers(body)[i] : i \in DOMAIN Wrappers(body)}

RECURSIVE Nested(_)
\* the statements nested exactly depth deep
Nested(depth) ==
    IF depth = 0 THEN {PrintLine("in"), ThrowLine, ReturnLine, LenLine, BreakLine}
    ELSE UNION {Wrapped(body) : body \in Nested(depth - 1)}

Called(name, args) == <<Id(name), T("LEFT_PAREN")>> \o args \o <<T("RIGHT_PAREN")>>

\* false and print("b")
AndLine == <<T("FALSE"), T("AND")>> \o Called("print", <<Str("b")>>) \o <<NL>>

\* print 1 or len(1)
OrLine == <<T("PRINT"), NumTok(1), T("OR")>> \o Called("len", <<NumTok(1)>>) \o <<NL>>

\* print nil or 2
ElseLine == <<T("PRINT"), T("NIL"), T("OR"), NumTok(2), NL>>

\* function name(params): { body }
Declared(name, params, body) ==
    <<T("FUNCTION"), Id(name), T("LEFT_PAREN")>> \o params
    \o <<T("RIGHT_PAREN"), T("COLON"), NL>> \o Braces(body) \o <<NL>>

\* calls that visitCallExpr refuses: 1(), len(), f(1) for function f()
Refused ==
    {<<NumTok(1), T("LEFT_PAREN"), T("RIGHT_PAREN"), NL>>,
     Called("len", <<>>) \o <<NL>>,
     Declared("f", <<>>, PrintLine("in")) \o Called("f", <<NumTok(1)>>) \o <<NL>>}

\* print("a", "b"): print takes any number of arguments
VariadicLine == Called("print", <<Str("a"), T("COMMA"), Str("b")>>) \o <<NL>>

\* var name = n
VarLine(name, n) == <<T("VAR"), Id(name), T("EQUAL"), NumTok(n), NL>>

\* name = n
AssignLine(name, n) == <<Id(name), T("EQUAL"), NumTok(n), NL>>

\* var x = 1, var y = 1, then a block that declares its own x and assigns to
\* x, to y and to z, which nothing declares
Shadowing ==
    VarLine("x", 1) \o VarLine("y", 1)
    \o Braces(VarLine("x", 2) \o AssignLine("x", 3) \o AssignLine("y", 3)
              \o VarLine("x", 4) \o AssignLine("z", 3)) \o <<NL>>

\* lambda(): { body }
LambdaOf(body) ==
    <<T("LAMBDA"), T("LEFT_PAREN"), T("RIGHT_PAREN"), T("COLON"), NL>> \o Braces(body)

\* var h = lambda(): { function g(): { return 1 }  return g }()
\* print h()
Dangling ==
    <<T("VAR"), Id("h"), T("EQUAL")>>
    \o LambdaOf(Declared("g", <<>>, <<T("RETURN"), NumTok(1), NL>>)
                \o <<T("RETURN"), Id("g"), NL>>)
    \o <<T("LEFT_PAREN"), T("RIGHT_PAREN"), NL>>
    \o <<T("PRINT")>> \o Called("h", <<>>) \o <<NL>>

\* var i = 0, while i < 2: { i = i + 1  print lambda(): { return 7 }() }
Twice ==
    Wrappers(<<T("PRINT")>> \o LambdaOf(<<T("RETURN"), NumTok(7), NL>>)
             \o <<T("LEFT_PAREN"), T("RIGHT_PAREN"), NL>>)[5]

\* class name: { methods }   and   class name extends parent: { methods }
ClassOf(name, parent, methods) ==
    <<T("CLASS"), Id(name)>> \o parent \o <<T("COLON"), NL>> \o Braces(methods)
    \o <<NL>>

\* a method: name(): { body }
Method(name, body) ==
    <<Id(name), T("LEFT_PAREN"), T("RIGHT_PAREN"), T("COLON"), NL>> \o Braces(body)
    \o <<NL>>

\* class A with a method init, class B extends A, print A == A, var a = B()
Classes ==
    ClassOf("A", <<>>, Method("init", PrintLine("init")))
    \o ClassOf("B", <<T("EXTENDS"), Id("A")>>, <<>>)
    \o <<T("PRINT"), Id("A"), T("EQUAL_EQUAL"), Id("A"), NL>>
    \o <<T("VAR"), Id("a"), T("EQUAL")>> \o Called("B", <<>>) \o <<NL>>

\* var n = 1, class C extends n
NoClass == VarLine("n", 1) \o ClassOf("C", <<T("EXTENDS"), Id("n")>>, <<>>)

\* statements that are run as they are
\* for j = 0; ; : { throw "boom" }: neither a condition nor an increment
Endless ==
    <<T("FOR"), Id("j"), T("EQUAL"), NumTok(0), T("SEMICOLON"), T("SEMICOLON"),
      T("COLON"), NL>> \o Braces(ThrowLine) \o <<NL>>

\* for j = 0; j < 2; j = j + 1: { print "in" }, then print j
Leaving == Wrappers(PrintLine("in"))[6] \o <<T("PRINT"), Id("j"), NL>>

\* function f(a, b): { print b }, function g(): { return y }, then a block
\* with var y = 1 that calls f(1, 2), f(3, 4) and g()
Scoped ==
    Declared("f", <<Id("a"), T("COMMA"), Id("b")>>, <<T("PRINT"), Id("b"), NL>>)
    \o Declared("g", <<>>, <<T("RETURN"), Id("y"), NL>>)
    \o Braces(VarLine("y", 1)
              \o Called("f", <<NumTok(1), T("COMMA"), NumTok(2)>>) \o <<NL>>
              \o Called("f", <<NumTok(3), T("COMMA"), NumTok(4)>>) \o <<NL>>
              \o Called("g", <<>>) \o <<NL>>) \o <<NL>>

\* case n: print text
CaseLine(n, text) == <<T("CASE"), NumTok(n), T("COLON"), NL>> \o PrintLine(text)

\* switch n: { case 1: print "one"  case 2: print "two"  case 2: print "again"
\* default: print "other" }, with the default clause or without it
Switched(n, last) ==
    <<T("SWITCH"), NumTok(n), T("COLON"), NL>>
    \o Braces(CaseLine(1, "one") \o CaseLine(2, "two") \o CaseLine(2, "again")
              \o last) \o <<NL>>

DefaultLine == <<T("DEFAULT"), T("COLON"), NL>> \o PrintLine("other")

Switches == {Switched(n, last) : n \in {2, 3}, last \in {<<>>, DefaultLine}}

\* [ inside ]
Bracketed(inside) == <<T("LEFT_BRACKET")>> \o inside \o <<T("RIGHT_BRACKET")>>

\* [10, 20]
Pair == Bracketed(<<NumTok(10), T("COMMA"), NumTok(20)>>)

\* print object[index] for the objects [], [10, 20] and 7 and the indices
\* 0, 1, 2, 0 - 1, 4294967296 and "a"
Indexed ==
    {<<T("PRINT")>> \o object \o Bracketed(index) \o <<NL>> :
        object \in {Bracketed(<<>>), Pair, <<NumTok(7)>>},
        index \in {<<NumTok(0)>>, <<NumTok(1)>>, <<NumTok(2)>>, <<WideTok>>,
                   <<NumTok(0), T("MINUS"), NumTok(1)>>, <<Str("a")>>}}

\* [0 - 1, 1]
Signed == Bracketed(<<NumTok(0), T("MINUS"), NumTok(1), T("COMMA"), NumTok(1)>>)

\* function inc(params): { return x + 1 }, var l = [0 - 1, 1],
\* print builtin(inc, l), print l
Applied(builtin, params) ==
    Declared("inc", params, <<T("RETURN"), Id("x"), T("PLUS"), NumTok(1), NL>>)
    \o <<T("VAR"), Id("l"), T("EQUAL")>> \o Signed \o <<NL>>
    \o <<T("PRINT")>> \o Called(builtin, <<Id("inc"), T("COMMA"), Id("l")>>) \o <<NL>>
    \o <<T("PRINT"), Id("l"), NL>>

\* function f(params): { return 1 }, print map(f, [10, 20])
Constant(params) ==
    Declared("f", params, <<T("RETURN"), NumTok(1), NL>>)
    \o <<T("PRINT")>> \o Called("map", <<Id("f"), T("COMMA")>> \o Pair) \o <<NL>>

\* map and filter over inc(x); map over f(), f(a) and f(a, b); map over the
\* builtins str and len
Iterations ==
    {Applied("map", <<Id("x")>>), Applied("filter", <<Id("x")>>),
     Constant(<<>>), Constant(<<Id("a")>>), Constant(<<Id("a"), T("COMMA"), Id("b")>>),
     <<T("PRINT")>> \o Called("map", <<Id("str"), T("COMMA")>> \o Pair) \o <<NL>>,
     <<T("PRINT")>> \o Called("map", <<Id("len"), T("COMMA")>> \o Pair) \o <<NL>>}

\* print this
ThisLine == <<T("PRINT"), T("THIS"), NL>>

Scripts ==
    {AndLine, OrLine, ElseLine, VariadicLine, Shadowing, Dangling, Twice, Classes,
     NoClass, Endless, Leaving, Scoped, ThisLine} \cup Refused \cup Switches
    \cup Indexed \cup Iterations

\* the scripts: a statement, then print "after"
Sources ==
    {body \o PrintLine("after") :
        body \in {BadLine, TargetLine, HugeLine, CharLine} \cup Scripts
                 \cup UNION {Nested(depth) : depth \in 0..MaxDepth}}

\* std::cin before anything is read
GoodStream == [state |-> "good", failed |-> 0]

\* nothing on standard input: end-of-input at once
NoInput == [lines |-> <<>>, final |-> FALSE]

\* count: the objects made so far; lambdas: those of them that are Lambdas;
\* moved: the LambdaExpr nodes whose body has been moved out; instances: the
\* FocusInstance objects, each with its class and its fields
NoObjects == [count |-> 0, lambdas |-> {}, moved |-> {}, instances |-> <<>>]

NotParsed ==
    [statements |-> <<>>, had |-> FALSE, thrown |-> 0, stuck |-> FALSE,
     escaped |-> FALSE, fatal |-> FALSE, pos |-> 0, depth |-> 0]

Idle ==
    /\ tokens = <<>> /\ statements = <<>> /\ parsed = NotParsed
    /\ hadError = FALSE /\ hadRuntimeError = FALSE
    /\ errout = <<>> /\ output = <<>>
    /\ exitCode = -1
    /\ environment = 0 /\ envs = <<>> /\ stack = <<>>
    /\ sig = NoSig /\ ret = Nil /\ hist = <<>>
    /\ line = <<>> /\ cin = GoodStream

\* what is typed at the prompt
\* var x = 1
DeclareLine == <<T("VAR"), Id("x"), T("EQUAL"), NumTok(1)>>

\* print x
ShowLine == <<T("PRINT"), Id("x")>>

\* len(x = 2, 1): the assignment is done before the call is refused
RebindLine ==
    <<Id("len"), T("LEFT_PAREN"), Id("x"), T("EQUAL"), NumTok(2), T("COMMA"), NumTok(1),
      T("RIGHT_PAREN")>>

\* print 1 #
SharpLine == <<T("PRINT"), NumTok(1), Tok("CHAR", "#")>>

Typed ==
    {DeclareLine, ShowLine, RebindLine, SharpLine, <<NumTok(1), T("EQUAL"), NumTok(2)>>,
     <<T("PRINT"), HugeTok>>, <<Id("len"), T("LEFT_PAREN"), NumTok(1), T("RIGHT_PAREN")>>,
     <<Id("exit")>>, <<Id("quit")>>, <<>>}

MaxLines == 2

\* standard input: up to MaxLines lines, the last one ended by a newline or not
Inputs ==
    {in \in [lines : UNION {[1..n -> Typed] : n \in 0..MaxLines}, final : BOOLEAN] :
        in.final => (in.lines # <<>> /\ in.lines[Len(in.lines)] # <<>>)}

\* focusNexus (argc 1), focusNexus script (argc 2) and focusNexus a b (argc 3)
Init ==
    /\ pc = "main"
    /\ argc \in {1, 2, 3}
    /\ source \in IF argc = 2 THEN Sources ELSE {<<>>}
    /\ stdin \in IF argc = 1 THEN Inputs ELSE {NoInput}
    /\ objects = NoObjects
    /\ Idle

Next ==
    \/ Usage \/ RunFile \/ ParseFile \/ Construct
    \/ RunFileReturn \/ RunFileCatch \/ MainReturn
    \/ RunPrompt \/ ReadLine \/ ParseLine \/ PromptReturn \/ PromptCatch
    \/ Interpret \/ InterpretCatch \/ Propagate
    \/ ExecuteBlock \/ UnwindBlock
    \/ ExecOperand \/ VisitExpressionStmt \/ VisitPrintStmt \/ VisitVarStmt
    \/ VisitThrowStmt \/ VisitReturnStmt \/ VisitFunctionStmt \/ VisitBlockStmt
    \/ VisitIfStmt \/ VisitWhileStmt \/ VisitForStmt \/ UnwindFor
    \/ VisitTryStmt \/ TryCatch \/ TrySwallow \/ UnwindCatch
    \/ EvaluateOperand \/ VisitLiteralExpr \/ VisitVariableExpr \/ VisitBinaryExpr
    \/ VisitAssignExpr \/ VisitCallExpr \/ CallReturned \/ CallEnd \/ CallCatch
    \/ VisitLambdaExpr \/ CallReleased \/ VisitClassStmt
    \/ VisitSwitchStmt \/ VisitListExpr \/ VisitIndexExpr
    \/ NativeLoop \/ NativeLoopCrash \/ NativeCollect \/ NativeReturn
    \/ VisitThisExpr

Spec == Init /\ [][Next]_vars

(***************************************************************************)
(* The parser alone, on every token list of up to MaxTokens tokens of      *)
(* Alphabet before the end-of-input token.                                 *)
(***************************************************************************)
MaxTokens == 3

Alphabet ==
    {NL, T("LEFT_BRACE"), T("RIGHT_BRACE"), T("PRINT"), NumTok(1), T("RIGHT_PAREN"),
     T("VAR"), T("BREAK"), T("EQUAL"), Id("x"), HugeTok}

RECURSIVE TokenLists(_)
TokenLists(n) ==
    IF n = 0 THEN {<<>>}
    ELSE {Append(l, t) : l \in TokenLists(n - 1), t \in Alphabet}

InitParser ==
    /\ pc = "parse"
    /\ argc = 2
    /\ source = <<>>
    /\ tokens \in {l \o <<EOF>> : l \in UNION {TokenLists(n) : n \in 0..MaxTokens}}
    /\ statements = <<>> /\ parsed = NotParsed
    /\ hadError = FALSE /\ hadRuntimeError = FALSE
    /\ errout = <<>> /\ output = <<>>
    /\ exitCode = -1
    /\ environment = 0 /\ envs = <<>> /\ stack = <<>>
    /\ sig = NoSig /\ ret = Nil /\ hist = <<>>
    /\ stdin = NoInput /\ line = <<>> /\ cin = GoodStream /\ objects = NoObjects

SpecParser == InitParser /\ [][ParseFile]_vars

(***************************************************************************)
(* FocusInstance::get and FocusInstance::set alone (callable.cpp:91-107),   *)
(* on one instance of a class with up to MaxChain classes above it.  The   *)
(* classes have methods among m and n; m, n and f are read, m and f are    *)
(* written.                                                                *)
(***************************************************************************)
MaxChain == 1

MaxOps == 3

\* name(): { }   declared in class number level
MethodOf(name, level) ==
    Function([k |-> "Function", name |-> name, params |-> <<>>, body |-> <<>>], 0, 1,
             3 * level + (IF name = "m" THEN 1 ELSE 2))

RECURSIVE Chains(_)
\* the classes with exactly depth classes above them
Chains(depth) ==
    {FocusClass("K", parent, [n \in names |-> MethodOf(n, depth)], 3 * depth + 3) :
        names \in SUBSET {"m", "n"},
        parent \in IF depth = 0 THEN {Null} ELSE Chains(depth - 1)}

\* FocusInstance::get (callable.cpp:91-103) on instance number i
InstanceGet(i, name) ==
    IF name \in DOMAIN objects.instances[i].fields
    THEN Ok(objects.instances[i].fields[name])
    ELSE IF findMethod(objects.instances[i].klass, name) # Null
    THEN Ok(BoundMethod(FocusInstance(objects.instances[i].klass, i),
                        findMethod(objects.instances[i].klass, name),
                        objects.count + 1))
    ELSE Err("Undefined property '" \o name \o "'")

\* FocusInstance::set (callable.cpp:105-107): the fields after it
InstanceSet(i, name, value) == (name :> value) @@ objects.instances[i].fields

InitInstance ==
    /\ pc = "instance"
    /\ argc = 2 /\ source = <<>> /\ stdin = NoInput
    /\ Idle
    /\ \E klass \in UNION {Chains(depth) : depth \in 0..MaxChain} :
          objects = [NoObjects EXCEPT !.count = 3 * MaxChain + 4,
                                      !.instances = <<[klass |-> klass, fields |-> <<>>]>>]

\* a read of property name of the instance
GetProperty ==
    /\ pc = "instance" /\ Len(hist) < MaxOps
    /\ \E name \in {"m", "n", "f"} :
          /\ hist' = Append(hist, [k |-> "get", name |-> name, value |-> Nil])
          /\ IF InstanceGet(1, name).ok
             THEN /\ ret' = InstanceGet(1, name).value
                  /\ sig' = NoSig
             ELSE /\ ret' = Nil
                  /\ sig' = RuntimeError(InstanceGet(1, name).msg)
          /\ objects' = [objects EXCEPT !.count =
                            IF InstanceGet(1, name).ok
                               /\ name \notin DOMAIN objects.instances[1].fields
                            THEN @ + 1 ELSE @]
    /\ UNCHANGED <<process, io, environment, envs, stack>>

\* a write of value to property name of the instance
SetProperty ==
    /\ pc = "instance" /\ Len(hist) < MaxOps
    /\ \E name \in {"m", "f"}, value \in {NumV(1), NumV(2)} :
          /\ hist' = Append(hist, [k |-> "set", name |-> name, value |-> value])
          /\ objects' = [objects EXCEPT !.instances[1].fields = InstanceSet(1, name, value)]
          /\ ret' = value
          /\ sig' = NoSig
    /\ UNCHANGED <<process, io, environment, envs, stack>>

SpecInstance == InitInstance /\ [][GetProperty \/ SetProperty]_vars

(***************************************************************************)
(* A call of a method by itself (src/src/runtime/callable.cpp:121-136).    *)
(* visitCallExpr has evaluated the callee and is about to call it: the     *)
(* callee is a BoundMethod of an instance, or the method's Function alone. *)
(***************************************************************************)
\* the bodies of the method: print this; var g = lambda(): { return this }
\* print g(); function h(): { return this } print h(); print 1
MethodBodies ==
    {ThisLine,
     <<T("VAR"), Id("g"), T("EQUAL")>> \o LambdaOf(<<T("RETURN"), T("THIS"), NL>>)
     \o <<NL, T("PRINT")>> \o Called("g", <<>>) \o <<NL>>,
     Declared("h", <<>>, <<T("RETURN"), T("THIS"), NL>>)
     \o <<T("PRINT")>> \o Called("h", <<>>) \o <<NL>>,
     <<T("PRINT"), NumTok(1), NL>>}

\* m(): { body }   declared by the statements of the script
MethodWith(body) ==
    Function([k |-> "Function", name |-> "m", params |-> <<>>,
              body |-> parse(scanTokens(body).tokens).statements], 0, 1, 1)

InitMethod ==
    /\ pc = "running"
    /\ argc = 2 /\ source = <<>> /\ stdin = NoInput
    /\ tokens = <<>> /\ statements = <<>> /\ parsed = NotParsed
    /\ hadError = FALSE /\ hadRuntimeError = FALSE
    /\ errout = <<>> /\ output = <<>>
    /\ exitCode = -1
    /\ sig = NoSig /\ ret = Nil /\ hist = <<>>
    /\ line = <<>> /\ cin = GoodStream
    /\ envs = <<[enclosing |-> 0,
                values |-> [n \in NativeNames |-> NativeFunction(n)]]>>
    /\ environment = 1
    /\ \E klass \in Chains(0) :
          objects = [NoObjects EXCEPT !.count = 5,
                                      !.instances = <<[klass |-> klass, fields |-> <<>>],
                                                      [klass |-> klass, fields |-> <<>>]>>]
    /\ \E body \in MethodBodies, i \in 1..2, bound \in BOOLEAN :
          stack = <<[EvalFrame([k |-> "Call", callee |-> VariableExpr("m"),
                                arguments |-> <<>>])
                     EXCEPT !.vals =
                        <<IF bound
                          THEN BoundMethod(FocusInstance(objects.instances[i].klass, i),
                                           MethodWith(body), 5)
                          ELSE MethodWith(body)>>]>>

NextMethod ==
    \/ VisitCallExpr \/ CallReturned \/ CallEnd \/ CallCatch
    \/ ExecuteBlock \/ UnwindBlock \/ ExecOperand \/ EvaluateOperand
    \/ VisitPrintStmt \/ VisitVarStmt \/ VisitReturnStmt \/ VisitFunctionStmt
    \/ VisitLambdaExpr \/ VisitThisExpr \/ VisitVariableExpr \/ VisitLiteralExpr

SpecMethod == InitMethod /\ [][NextMethod]_vars

(***************************************************************************)
(* The lexer by itself (src/src/lexer/lexer.cpp), character by character.  *)
(* The source is a sequence of characters; the activation of scanTokens is *)
(* the one frame of the stack, with Lexer::start and Lexer::current, and   *)
(* the token vector is the variable tokens.  Lines and columns are left    *)
(* out.                                                                    *)
(***************************************************************************)
MaxSource == 3

\* TokenUtils::keywords (lexer.cpp:4-43)
keywords ==
    [and |-> "AND", class |-> "CLASS", else |-> "ELSE", false |-> "FALSE",
     for |-> "FOR", function |-> "FUNCTION", if |-> "IF", nil |-> "NIL", or |-> "OR",
     print |-> "PRINT", return |-> "RETURN", super |-> "SUPER", this |-> "THIS",
     true |-> "TRUE", var |-> "VAR", while |-> "WHILE", set |-> "LET",
     break |-> "BREAK", continue |-> "CONTINUE", import |-> "IMPORT", from |-> "FROM",
     as |-> "AS", try |-> "TRY", catch |-> "CATCH", finally |-> "FINALLY",
     throw |-> "THROW", lambda |-> "LAMBDA", switch |-> "SWITCH", case |-> "CASE",
     default |-> "DEFAULT", extends |-> "EXTENDS", static |-> "STATIC",
     private |-> "PRIVATE", public |-> "PUBLIC", protected |-> "PROTECTED",
     const |-> "CONST", async |-> "ASYNC", await |-> "AWAIT"]

\* lexer.cpp:92-98
getKeywordType(text) ==
    IF text \in DOMAIN keywords THEN keywords[text] ELSE "IDENTIFIER"

\* the tokens of one character that needs no lookahead (lexer.cpp:106-122)
Single ==
    [c \in {"(", ")", "{", "}", "[", "]", ",", ".", ";", ":", "%", "^", "&", "|",
            "~", "?", "@"} |->
       CASE c = "(" -> "LEFT_PAREN" [] c = ")" -> "RIGHT_PAREN"
         [] c = "{" -> "LEFT_BRACE" [] c = "}" -> "RIGHT_BRACE"
         [] c = "[" -> "LEFT_BRACKET" [] c = "]" -> "RIGHT_BRACKET"
         [] c = "," -> "COMMA" [] c = "." -> "DOT" [] c = ";" -> "SEMICOLON"
         [] c = ":" -> "COLON" [] c = "%" -> "PERCENT" [] c = "^" -> "CARET"
         [] c = "&" -> "AMPERSAND" [] c = "|" -> "PIPE" [] c = "~" -> "TILDE"
         [] c = "?" -> "QUESTION" [] OTHER -> "AT"]

\* lexer.cpp:318-320
isDigit(c) == c \in {"0", "1", "2", "3", "4", "5", "6", "7", "8", "9"}

\* lexer.cpp:322-326
isAlpha(c) ==
    c \in {"a", "b", "c", "d", "e", "f", "g", "h", "i", "j", "k", "l", "m", "n", "o",
           "p", "q", "r", "s", "t", "u", "v", "w", "x", "y", "z", "_",
           "A", "B", "C", "D", "E", "F", "G", "H", "I", "J", "K", "L", "M", "N", "O",
           "P", "Q", "R", "S", "T", "U", "V", "W", "X", "Y", "Z"}

\* lexer.cpp:328-330
isAlphaNumeric(c) == isAlpha(c) \/ isDigit(c)

\* source[i]; source[source.length()] is the terminating '\0', written ""
CharAt(src, i) == IF i < Len(src) THEN src[i + 1] ELSE ""

\* Lexer::peek and Lexer::peekNext (lexer.cpp:252-260)
peekChar(src, l) == CharAt(src, l.current)

peekNext(src, l) == CharAt(src, l.current + 1)

\* Lexer::isAtEnd (lexer.cpp:225-227)
atEnd(src, l) == l.current >= Len(src)

\* Lexer::advance (lexer.cpp:229-232), the state after it
advanced(l) == [l EXCEPT !.current = @ + 1]

\* Lexer::match (lexer.cpp:243-250): whether it consumes expected
matches(src, l, expected) == ~atEnd(src, l) /\ CharAt(src, l.current) = expected

RECURSIVE Substr(_, _, _)
\* source.substr(from, to - from)
Substr(src, from, to) ==
    IF from >= to \/ from >= Len(src) THEN ""
    ELSE src[from + 1] \o Substr(src, from + 1, to)

RECURSIVE Numeral(_, _, _)
\* the number the digits of source from position from up to to stand for
Numeral(src, from, to) ==
    IF from >= to \/ ~isDigit(CharAt(src, to - 1)) THEN 0
    ELSE 10 * Numeral(src, from, to - 1)
         + (CHOOSE d \in 0..9 : ToString(d) = CharAt(src, to - 1))

\* Lexer::addToken (lexer.cpp:238-241).  The token has the text from start to
\* current as lexeme (a STRING its literal); num is the value of the digits
\* a NUMBER begins with
addToken(src, l, type, literal) ==
    [l EXCEPT !.tokens =
        Append(@, [Tok(type, IF type = "STRING" THEN literal
                             ELSE Substr(src, l.start, l.current))
                   EXCEPT !.num = IF type = "NUMBER"
                                  THEN Numeral(src, l.start, l.current) ELSE 0])]

\* a report that would print the message without setting the flag
reportPrintsOnly(l, message) == [l EXCEPT !.errors = Append(@, message)]

\* ErrorHandler::error (error_handler.cpp:8-10, 26-29)
report(l, message) == [l EXCEPT !.errors = Append(@, message), !.had = TRUE]

\* one of two tokens, by the character that follows (Lexer::match)
Either(src, l, expected, type, otherwise) ==
    IF matches(src, l, expected) THEN addToken(src, advanced(l), type, "")
    ELSE otherwise

RECURSIVE skipComment(_, _)
\* lexer.cpp:332-334
skipComment(src, l) ==
    IF peekChar(src, l) # "\n" /\ ~atEnd(src, l) THEN skipComment(src, advanced(l))
    ELSE l

RECURSIVE skipBlock(_, _)
\* the loop over a multi-line comment and its end (lexer.cpp:181-191)
skipBlock(src, l) ==
    IF ~atEnd(src, l) /\ ~(peekChar(src, l) = "*" /\ peekNext(src, l) = "/")
    THEN skipBlock(src, advanced(l))
    ELSE IF ~atEnd(src, l) THEN advanced(advanced(l)) ELSE l

\* the character an escape sequence stands for (lexer.cpp:274-281)
Escaped(c) ==
    CASE c = "n" -> "\n" [] c = "t" -> "\t" [] c = "r" -> "\r" [] OTHER -> c

RECURSIVE stringLoop(_, _, _)
\* Lexer::string (lexer.cpp:262-295), value the literal so far
stringLoop(src, l, value) ==
    IF peekChar(src, l) # "\"" /\ ~atEnd(src, l)
    THEN IF peekChar(src, l) = "\\"
         THEN stringLoop(src, advanced(advanced(l)),
                         value \o Escaped(CharAt(src, l.current + 1)))
         ELSE stringLoop(src, advanced(l), value \o peekChar(src, l))
    ELSE IF atEnd(src, l) THEN report(l, "Unterminated string")
    ELSE addToken(src, advanced(l), "STRING", value)

RECURSIVE digits(_, _)
\* while (isDigit(peek())) advance();
digits(src, l) == IF isDigit(peekChar(src, l)) THEN digits(src, advanced(l)) ELSE l

\* Lexer::number (lexer.cpp:297-309)
number(src, l) ==
    LET whole == digits(src, l)
        all == IF peekChar(src, whole) = "." /\ isDigit(peekNext(src, whole))
               THEN digits(src, advanced(whole)) ELSE whole
    IN  addToken(src, all, "NUMBER", "")

RECURSIVE word(_, _)
\* while (isAlphaNumeric(peek())) advance();
word(src, l) == IF isAlphaNumeric(peekChar(src, l)) THEN word(src, advanced(l)) ELSE l

\* Lexer::identifier (lexer.cpp:311-316)
identifier(src, l) ==
    LET all == word(src, l)
    IN  addToken(src, all, getKeywordType(Substr(src, all.start, all.current)), "")

\* one turn of the loop of scanTokens (lexer.cpp:101-217): start = current,
\* c = advance(), the switch
scanToken(src, l0) ==
    LET c == CharAt(src, l0.current)
        l == advanced([l0 EXCEPT !.start = l0.current])
    IN  CASE c \in DOMAIN Single -> addToken(src, l, Single[c], "")
          [] c = "-" ->
               Either(src, l, "-", "MINUS_MINUS",
                   Either(src, l, "=", "MINUS_EQUAL",
                       Either(src, l, ">", "ARROW", addToken(src, l, "MINUS", ""))))
          [] c = "+" ->
               Either(src, l, "+", "PLUS_PLUS",
                   Either(src, l, "=", "PLUS_EQUAL", addToken(src, l, "PLUS", "")))
          [] c = "*" ->
               Either(src, l, "*", "STAR_STAR",
                   Either(src, l, "=", "STAR_EQUAL", addToken(src, l, "STAR", "")))
          [] c = "!" -> Either(src, l, "=", "BANG_EQUAL", addToken(src, l, "BANG", ""))
          [] c = "=" -> Either(src, l, "=", "EQUAL_EQUAL", addToken(src, l, "EQUAL", ""))
          [] c = "<" ->
               Either(src, l, "=", "LESS_EQUAL",
                   Either(src, l, "<", "LEFT_SHIFT", addToken(src, l, "LESS", "")))
          [] c = ">" ->
               Either(src, l, "=", "GREATER_EQUAL",
                   Either(src, l, ">", "RIGHT_SHIFT", addToken(src, l, "GREATER", "")))
          [] c = "/" ->
               IF matches(src, l, "/") THEN skipComment(src, advanced(l))
               ELSE IF matches(src, l, "*") THEN skipBlock(src, advanced(l))
               ELSE Either(src, l, "=", "SLASH_EQUAL", addToken(src, l, "SLASH", ""))
          [] c \in {" ", "\r", "\t"} -> l
          [] c = "\n" -> addToken(src, l, "NEWLINE", "")
          [] c = "\"" -> stringLoop(src, l, "")
          [] isDigit(c) -> number(src, l)
          [] isAlpha(c) -> identifier(src, l)
          [] OTHER -> report(l, "Unexpected character: " \o c)

\* the activation of scanTokens
LexFrame(l) == [fn |-> "scanTokens", start |-> l.start, current |-> l.current]

\* the Lexer object of the activation on top
TheLexer ==
    [start |-> TopF.start, current |-> TopF.current, tokens |-> tokens,
     had |-> hadError, errors |-> <<>>]

\* while (!isAtEnd()) { ... } of scanTokens, one turn
ScanToken ==
    /\ pc = "scan" /\ ~atEnd(source, TheLexer)
    /\ LET l == scanToken(source, TheLexer)
       IN  /\ stack' = <<LexFrame(l)>>
           /\ tokens' = l.tokens
           /\ hadError' = l.had
           /\ errout' = errout \o [i \in DOMAIN l.errors |->
                                     [kind |-> "Error", msg |-> l.errors[i]]]
    /\ UNCHANGED <<pc, source, statements, parsed, hadRuntimeError, output, exitCode,
                   environment, envs, sig, ret, hist, argc, console, objects>>

\* tokens.emplace_back(TokenType::EOF_TOKEN, ...); return tokens;
\* (lexer.cpp:220-221)
ScanEnd ==
    /\ pc = "scan" /\ atEnd(source, TheLexer)
    /\ tokens' = Append(tokens, EOF)
    /\ stack' = <<>>
    /\ pc' = "scanned"
    /\ UNCHANGED <<source, statements, parsed, hadError, hadRuntimeError, errout, output,
                   exitCode, environment, envs, sig, ret, hist, argc, console, objects>>

\* the characters sources are made of
Characters == {"(", "\"", "#", "a", "1", " ", "\n", "/", "*", "\\"}

RECURSIVE Texts(_)
\* the sources of n characters
Texts(n) ==
    IF n = 0 THEN {<<>>}
    ELSE {Append(text, c) : text \in Texts(n - 1), c \in Characters}

\* let x=1, set x=1 and var x=1, each with its newline
Words ==
    {first \o <<" ", "x", "=", "1", "\n">> :
        first \in {<<"l", "e", "t">>, <<"s", "e", "t">>, <<"v", "a", "r">>}}

InitLexer ==
    /\ pc = "scan"
    /\ argc = 2
    /\ source \in Words \cup UNION {Texts(n) : n \in 0..MaxSource}
    /\ tokens = <<>> /\ statements = <<>> /\ parsed = NotParsed
    /\ hadError = FALSE /\ hadRuntimeError = FALSE
    /\ errout = <<>> /\ output = <<>>
    /\ exitCode = -1
    /\ environment = 0 /\ envs = <<>>
    /\ stack = <<LexFrame([start |-> 0, current |-> 0])>>
    /\ sig = NoSig /\ ret = Nil /\ hist = <<>>
    /\ stdin = NoInput /\ line = <<>> /\ cin = GoodStream /\ objects = NoObjects

SpecLexer == InitLexer /\ [][ScanToken \/ ScanEnd]_vars

(***************************************************************************)
(* Properties.                                                             *)
(***************************************************************************)
\* the activation on top ends in this step
Ends == pc = "running" /\ stack # <<>> /\ Len(stack') < Len(stack)

\* C1: when executeBlock, a for statement, the catch block of a try statement
\* or a function call ends - normally, by a runtime error or by a return
\* unwinding through it - the current environment is again the environment
\* that was current when it was entered.
EnvironmentRestored ==
    [][/\ (Ends /\ TopF.fn \in {"executeBlock", "call"}) => environment' = TopF.entry
       /\ (Ends /\ TopF.fn = "exec" /\ TopF.stmt.k = "For") => environment' = TopF.entry
       /\ (/\ pc = "running" /\ stack # <<>> /\ TopF.fn = "exec"
           /\ TopF.stmt.k = "Try" /\ TopF.at = "catch")
          => /\ environment' = TopF.g.catchEntry
             /\ TopF.g.catchEntry = TopF.entry]_vars

\* a return has left the body of a call, whose block had an environment of
\* its own, and the environment of the caller is current again
EnvironmentRestoredWitness ==
    /\ pc = "running" /\ stack # <<>>
    /\ sig.t = "ReturnValue" /\ TopF.fn = "call"
    /\ environment = TopF.entry /\ Len(envs) > TopF.entry

\* C2: the finally block of a try statement runs exactly once on every way
\* out of the statement: after a try block that completed, after a caught
\* error, when the catch block raises, when a return unwinds through it.
FinallyRunsOnce ==
    \A i \in DOMAIN hist :
        (hist[i].k = "Try" /\ hist[i].hasFinally) => hist[i].finallyRuns = 1

\* C3: a runtime error raised in the try block of a try statement with a catch
\* block runs the catch block in a fresh scope in which the catch variable is
\* bound to the message of the error, a string.
CatchBindsMessage ==
    \A i \in DOMAIN hist :
        hist[i].k = "Catch" =>
            /\ hist[i].fresh
            /\ hist[i].var # "" => hist[i].bound = StrV(hist[i].msg)

\* C4: a try statement without a catch block does not stop a runtime error:
\* an error raised in its try block leaves the statement.
ErrorPassesTryWithoutCatch ==
    \A i \in DOMAIN hist :
        (hist[i].k = "Try" /\ ~hist[i].hasCatch /\ hist[i].raised = "RuntimeError")
            => hist[i].exit = "RuntimeError"

\* C5: a return inside a function body ends the call at once: until the call
\* is reached the signal stays in flight (no catch block stops it), nothing is
\* printed and no catch block is entered; the innermost call then returns the
\* value carried; a body that ends without a return gives nil.
ReturnEndsCall ==
    [][/\ (pc = "running" /\ stack # <<>> /\ sig.t = "ReturnValue" /\ CallDepth > 0)
          => /\ output' = output /\ errout' = errout
             /\ Len(stack') < Len(stack)
             /\ IF TopF.fn = "call"
                THEN sig' = NoSig /\ ret' = sig.value
                ELSE sig' = sig /\ ret' = ret
       /\ Running("call") => (ret' = Nil /\ sig' = sig /\ Len(stack') < Len(stack))]_vars

\* a return is in flight inside a call, at a try statement that has a catch
\* block and whose try block it has just left
ReturnEndsCallWitness ==
    /\ pc = "running" /\ stack # <<>>
    /\ sig.t = "ReturnValue" /\ CallDepth > 0
    /\ TopF.fn = "exec" /\ TopF.stmt.k = "Try" /\ TopF.at = "tried"
    /\ TopF.stmt.catchBlock # Null

\* C6: a return executed outside every function call is reported as a runtime
\* error: a runtime-error diagnostic, the runtime-error flag, exit code 70.
StrayReturnReported ==
    (pc = "exit" /\ \E i \in DOMAIN hist : hist[i].k = "Return" /\ hist[i].depth = 0)
        => /\ hadRuntimeError
           /\ exitCode = 70
           /\ \E j \in DOMAIN errout : errout[j].kind = "Runtime Error"

\* the brace that opens the body of the loop whose keyword is token tok
BodyStart(tok) ==
    CHOOSE p \in tok..Len(tokens) :
        /\ tokens[p].type = "LEFT_BRACE"
        /\ \A q \in tok..(p - 1) : tokens[q].type # "LEFT_BRACE"

\* the body of that loop has a break statement of its own, in no inner block
BreaksAtOnce(tok) ==
    \E p \in (BodyStart(tok) + 1)..Len(tokens) :
        /\ tokens[p].type = "BREAK"
        /\ \A q \in (BodyStart(tok) + 1)..(p - 1) :
              tokens[q].type \notin {"LEFT_BRACE", "RIGHT_BRACE"}

\* C7: break ends the nearest enclosing loop without another evaluation of
\* its condition: a loop whose body breaks unconditionally evaluates its
\* condition once.
BreakEndsLoop ==
    \A i \in DOMAIN hist :
        (hist[i].k = "Loop" /\ BreaksAtOnce(hist[i].tok)) => hist[i].conds = 1

\* C8: a parse error is recorded on the error reporter: once parse() has
\* returned the error flag is set and a diagnostic is written, no statement
\* of the source is executed, and the exit code is 65.
ParseErrorReported ==
    (pc \notin {"main", "parse"} /\ parsed.thrown > 0)
        => /\ hadError
           /\ errout # <<>>
           /\ output = <<>>
           /\ pc = "exit" => exitCode = 65

\* C9: for every token list that ends with the end-of-input token parse()
\* returns a statement list: no exception leaves it, and every iteration of
\* its loops has consumed a token.
ParseReturns ==
    pc \notin {"main", "parse"} => (~parsed.escaped /\ ~parsed.stuck)

\* a diagnostic of a runtime error, from interpret or from runFile
RuntimeDiagnostics ==
    SelectSeq(errout, LAMBDA d : d.kind \in {"Runtime Error", "Error:"})

\* C10: in file mode the exit code is 64 for a usage error, 65 when a lexical or parse
\* error was recorded, 70 when execution ended with a runtime error (one
\* raised by a builtin included), with exactly one diagnostic, and 0 only
\* when the program ran without any error.
ExitCodes ==
    pc = "exit" =>
        /\ argc > 2 => exitCode = 64
        /\ (argc = 2 /\ hadError) => exitCode = 65
        /\ (argc = 2 /\ ~hadError /\ RuntimeDiagnostics # <<>>)
              => (exitCode = 70 /\ Len(RuntimeDiagnostics) = 1)
        /\ (argc = 2 /\ exitCode = 0) => errout = <<>>

\* a step of runPrompt between two lines: reading and scanning a line, parsing
\* it, and the end of the loop body after interpret returned or threw
BetweenLines ==
    /\ argc = 1
    /\ pc \in {"prompt", "parseline"} \/ (pc = "running" /\ pc' = "prompt")

\* C11: in REPL mode the one interpreter and its global environment are kept:
\* no step of the loop between two lines changes a binding, so what a line
\* bound (also before it failed) is what the next line reads, and the loop is
\* back at the prompt only with both error flags cleared, in the global scope.
PromptKeepsGlobals ==
    [][BetweenLines =>
          /\ envs' = envs /\ environment' = environment
          /\ pc' = "prompt" =>
                 (~hadError' /\ ~hadRuntimeError' /\ environment' = 1 /\ sig'.t = "none")]_vars

\* var x = 1, then len(x = 2, 1) failed after the assignment: back at the
\* prompt, with its diagnostic printed and x bound to 2
PromptKeepsGlobalsWitness ==
    /\ argc = 1 /\ pc = "prompt" /\ cin.failed = 0
    /\ \E i \in DOMAIN errout : errout[i].kind = "Runtime Error"
    /\ IsDefined(envs, 1, "x") /\ get(envs, 1, "x") = NumV(2)

\* C12: the REPL loop ends at end-of-input: once a read has met the end of
\* standard input, runPrompt has returned and prints no further prompt.
EndOfInputEndsPrompt ==
    (argc = 1 /\ cin.failed > 0) => pc \in {"returned", "exit"}

\* the left operand decides the value of left op right
Decisive(op, left) ==
    \/ op = "AND" /\ ~isTruthy(left)
    \/ op = "OR" /\ isTruthy(left)

RECURSIVE Chain(_, _)
\* the scopes from e outwards
Chain(heap, e) == IF e = 0 THEN <<>> ELSE <<e>> \o Chain(heap, heap[e].enclosing)

\* the places of Chain(envs, environment) whose scope defines name
Defining(name) ==
    {i \in DOMAIN Chain(envs, environment) :
        name \in DOMAIN envs[Chain(envs, environment)[i]].values}

\* envs' is envs but for name bound to value in scope e
Rebound(e, name, value) ==
    /\ DOMAIN envs' = DOMAIN envs
    /\ \A o \in DOMAIN envs \ {e} : envs'[o] = envs[o]
    /\ envs'[e].enclosing = envs[e].enclosing
    /\ DOMAIN envs'[e].values = DOMAIN envs[e].values \cup {name}
    /\ envs'[e].values[name] = value
    /\ \A n \in DOMAIN envs[e].values \ {name} : envs'[e].values[n] = envs[e].values[n]

\* C20: an assignment rebinds the name in the nearest scope of the chain that
\* defines it and changes no other scope; with no such scope it fails with an
\* undefined-variable error and changes no environment; a var declaration
\* binds the name in the current scope only.
AssignRebindsNearest ==
    [][/\ Visiting("Assign") =>
             IF Defining(TopF.expr.name) = {}
             THEN /\ envs' = envs
                  /\ sig'.t = "RuntimeError"
                  /\ sig'.msg = "Undefined variable '" \o TopF.expr.name \o "'"
             ELSE /\ \E i \in Defining(TopF.expr.name) :
                        /\ \A j \in Defining(TopF.expr.name) : i <= j
                        /\ Rebound(Chain(envs, environment)[i], TopF.expr.name, Vals[1])
                  /\ sig' = sig
       /\ Evaluated("Var") => Rebound(environment, TopF.stmt.name, OperandValue)]_vars

\* inside the block of Shadowing after y = 3 and var x = 4: the block's x is 4,
\* the global x is still 1 and the global y is 3
AssignRebindsNearestWitness ==
    /\ environment = 2 /\ Len(envs) = 2
    /\ DOMAIN envs[2].values = {"x"} /\ envs[2].values["x"] = NumV(4)
    /\ envs[1].values["x"] = NumV(1) /\ envs[1].values["y"] = NumV(3)

\* value is a Function whose FunctionStmt was destroyed
Dangles(value) ==
    isCallable(value) /\ value.c = "Function" /\ value.owner \in Released

\* C13: the syntax tree outlives its uses: the FunctionStmt of every Function
\* value that a scope from the current one outwards binds is not destroyed.
DeclarationsAlive ==
    \A i \in DOMAIN Chain(envs, environment) :
        \A n \in DOMAIN envs[Chain(envs, environment)[i]].values :
            ~Dangles(envs[Chain(envs, environment)[i]].values[n])

\* C14: evaluation leaves the syntax tree as it was parsed: every evaluation
\* of a Lambda expression gives a lambda with the whole parsed body.
LambdaKeepsBody ==
    [][Visiting("Lambda") => (ret'.body = TopF.expr.body /\ ret'.params = TopF.expr.params)]_vars

\* C17: a class value is callable: a call of a class with as many arguments as
\* its arity (that of init, 0 without one) is not refused.
ClassCallable ==
    [][(Visiting("Call") /\ isClass(Vals[1]) /\ Len(Vals) - 1 = ClassArity(Vals[1]))
          => sig'.t # "RuntimeError"]_vars

\* the values bound in some environment
BoundValues ==
    UNION {{envs[e].values[n] : n \in DOMAIN envs[e].values} : e \in DOMAIN envs}

\* C19: equality of values is reflexive: every value, a list, a callable, a
\* class and an instance included, is equal to itself.
EqualityReflexive == \A v \in BoundValues : isEqual(v, v)

RECURSIVE Ancestry(_)
\* a class and the classes above it, nearest first
Ancestry(klass) ==
    IF klass = Null THEN <<>> ELSE <<klass>> \o Ancestry(klass.superclass)

\* the places of Ancestry(klass) whose class declares method name
Declaring(klass, name) ==
    {i \in DOMAIN Ancestry(klass) : name \in DOMAIN Ancestry(klass)[i].methods}

\* the property step just taken
Op == hist'[Len(hist')]

GlobalScopeOutsideInterpret ==
    (envs # <<>> /\ stack = <<>>) => environment = 1

\* an exception that interpret does not catch has left it from inside a for
\* statement, which had an environment of its own
GlobalScopeOutsideInterpretWitness ==
    /\ envs # <<>> /\ stack = <<>> /\ environment = 1
    /\ sig.t \in {"StdRuntimeError", "ReturnValue"}
    /\ \E i \in DOMAIN hist : /\ hist[i].k = "Loop" /\ tokens[hist[i].tok].type = "FOR"
                               /\ hist[i].exit = sig.t

\* the for statements that have begun: their activations on the stack
Looping == {i \in DOMAIN stack : /\ stack[i].fn = "exec" /\ stack[i].stmt.k = "For"
                                  /\ stack[i].at # "start"}

\* what holds of the activation f of a for statement at every moment
ForCounts(f) ==
    /\ f.g.inits = 1
    /\ f.g.scope > f.entry /\ envs[f.g.scope].enclosing = f.entry
    /\ DOMAIN envs[f.entry].values = f.g.names
    /\ f.g.conds = IF f.stmt.condition = Null THEN 0
                   ELSE f.g.bodies + (IF f.at = "test" THEN 1 ELSE 0)
    /\ f.g.incrs = IF f.stmt.increment = Null THEN 0
                   ELSE f.g.bodies - (IF f.at = "incr" THEN 1 ELSE 0)

\* C26: a for statement runs its initializer once, in a fresh scope whose
\* parent is the scope the statement is in, and the condition, the body and
\* the increment run in that scope; every body execution follows a check of
\* the condition that was truthy (none when there is no condition), the
\* increment follows every body execution that completed, the statement ends
\* at the first falsy condition, and the scope it is in has the same names
\* after the loop as before: the loop variable is not one of them.
ForLoopOrder ==
    /\ [](pc = "running" => \A i \in Looping : ForCounts(stack[i]))
    /\ [][(Executing("For") /\ TopF.at # "start") =>
            /\ environment = TopF.g.scope
            /\ TopF.stmt.initializer.name \in DOMAIN envs[TopF.g.scope].values
            /\ TopF.at = "test" =>
                  IF isTruthy(ret)
                  THEN /\ Len(stack') = Len(stack) + 1
                       /\ stack'[Len(stack')].stmt = TopF.stmt.body
                       /\ stack'[Len(stack')].entry = TopF.g.scope
                  ELSE /\ stack' = Popped /\ environment' = TopF.entry
                       /\ DOMAIN envs'[TopF.entry].values = TopF.g.names
            /\ Len(stack') < Len(stack) => (TopF.at = "test" /\ ~isTruthy(ret))]_vars

\* the loop over j = 0, 1 has ended at the third check of its condition,
\* after two body executions and two increments, and print j failed
ForLoopOrderWitness ==
    /\ argc = 2 /\ pc = "running"
    /\ \E i \in DOMAIN hist : /\ hist[i].k = "Loop" /\ tokens[hist[i].tok].type = "FOR"
                               /\ hist[i].conds = 3 /\ hist[i].bodies = 2
                               /\ hist[i].incrs = 2 /\ hist[i].exit = "none"
    /\ sig = RuntimeError("Undefined variable 'j'")

\* visitCallExpr is about to call a Function or a Lambda whose declaration
\* is alive
Calling ==
    /\ Visiting("Call")
    /\ CallOutcome(Vals[1], SubSeq(Vals, 2, Len(Vals))) \in {"Function", "Lambda"}
    /\ Vals[1].c = "Function" => Vals[1].owner \notin Released

\* the last position at which name is a parameter
Position(params, name) ==
    CHOOSE i \in DOMAIN params :
        params[i] = name /\ \A j \in DOMAIN params : params[j] = name => j <= i

\* C25: the body of a called Function or Lambda runs in an environment that
\* did not exist before the call (so two calls get two environments), whose
\* parent is the closure of the callable, not the environment of the caller,
\* and which binds exactly the parameters, each to the argument at its
\* position: a name is visible in the body only if it is a parameter or
\* visible from the closure.
CallScope ==
    [][Calling =>
         LET callee == Vals[1]
             args == SubSeq(Vals, 2, Len(Vals))
             params == Params(callee)
         IN  /\ Len(envs') = Len(envs) + 1
             /\ environment' = Len(envs')
             /\ \A e \in DOMAIN envs : envs'[e] = envs[e]
             /\ envs'[environment'].enclosing = callee.closure
             /\ DOMAIN envs'[environment'].values = {params[i] : i \in DOMAIN params}
             /\ \A n \in DOMAIN envs'[environment'].values :
                    envs'[environment'].values[n] = args[Position(params, n)]
             /\ \A n \in {"a", "b", "y", "f", "g", "x"} :
                    IsDefined(envs', environment', n)
                    <=> (\/ \E i \in DOMAIN params : params[i] = n
                         \/ IsDefined(envs, callee.closure, n))
             /\ stack'[Len(stack')].fn = "executeBlock"
             /\ stack'[Len(stack')].statements = Body(callee)]_vars

\* f(1, 2) and f(3, 4) have printed their second arguments, and g, called in
\* the block that declares y, does not see y
CallScopeWitness ==
    /\ output = <<"2", "4">>
    /\ sig = RuntimeError("Undefined variable 'y'")
    /\ stack # <<>> /\ TopF.fn = "executeBlock"
    /\ envs[environment].enclosing = 1 /\ TopF.previous # 1
    /\ IsDefined(envs, TopF.previous, "y") /\ ~IsDefined(envs, environment, "y")
    /\ Cardinality({e \in DOMAIN envs : DOMAIN envs[e].values = {"a", "b"}}) = 2

\* what holds of a switch statement with bookkeeping g: discriminant once,
\* case expressions in source order, none after the first equal one, at most
\* one body, that of the matching case or, when no case matched, the default
SwitchOrder(stmt, g, ended) ==
    LET n == Len(g.tested)
    IN  /\ g.discs = 1
        /\ g.tested = [j \in 1..n |-> j] /\ n <= Len(stmt.cases)
        /\ Len(g.equal) \in {n, n - 1}
        /\ \A j \in DOMAIN g.equal : g.equal[j] => j = n
        /\ Len(g.ran) <= 1
        /\ \A j \in DOMAIN g.ran :
              IF g.ran[j] = 0
              THEN /\ stmt.defaultCase # Null /\ n = Len(stmt.cases)
                   /\ Len(g.equal) = n /\ \A m \in DOMAIN g.equal : ~g.equal[m]
              ELSE g.ran[j] = n /\ Len(g.equal) = n /\ g.equal[n]
        /\ ended =>
              /\ Len(g.equal) = n
              /\ (\E j \in DOMAIN g.equal : g.equal[j]) => g.ran = <<n>>
              /\ (\A j \in DOMAIN g.equal : ~g.equal[j]) =>
                    /\ n = Len(stmt.cases)
                    /\ g.ran = IF stmt.defaultCase # Null THEN <<0>> ELSE <<>>

\* C27: a switch statement evaluates its discriminant once, then the case
\* expressions in source order up to the first that equals it, runs the body
\* of that case and nothing else, and runs the default body exactly when no
\* case matched and there is one.
SwitchRunsFirstMatch ==
    pc = "running" =>
      /\ \A i \in DOMAIN stack :
            (stack[i].fn = "exec" /\ stack[i].stmt.k = "Switch"
             /\ stack[i].at # "start")
            => SwitchOrder(stack[i].stmt, stack[i].g, FALSE)
      /\ \A i \in DOMAIN hist :
            hist[i].k = "Switch"
            => SwitchOrder(hist[i].stmt, hist[i].g, hist[i].exit = "none")

\* switch 2 has printed two: the second of three case expressions was the
\* last one evaluated, and neither the third case nor the default ran
SwitchRunsFirstMatchWitness ==
    /\ pc = "running" /\ output = <<"two">>
    /\ \E i \in DOMAIN hist :
          /\ hist[i].k = "Switch" /\ hist[i].stmt.defaultCase # Null
          /\ Len(hist[i].stmt.cases) = 3
          /\ hist[i].g.tested = <<1, 2>> /\ hist[i].g.ran = <<2>>

MapAppliesInOrder ==
    \A h \in DOMAIN hist :
        (hist[h].k = "Native" /\ hist[h].name = "map")
        => /\ hist[h].value.t = "list" /\ hist[h].value.id # hist[h].list.id
           /\ Len(hist[h].value.items) = Len(hist[h].list.items)
           /\ Len(hist[h].calls) = Len(hist[h].list.items)
           /\ \A i \in DOMAIN hist[h].calls :
                 /\ hist[h].calls[i].item = hist[h].list.items[i]
                 /\ hist[h].value.items[i] = hist[h].calls[i].value
           /\ IsDefined(envs, 1, "l") =>
                 (get(envs, 1, "l") = hist[h].list /\ hist[h].list.items = <<NumV(-1), NumV(1)>>)

\* map(inc, l) over l = [-1, 1] has printed [0, 2], and print l prints
\* [-1, 1]
MapAppliesInOrderWitness ==
    /\ output = <<"[0, 2]", "[-1, 1]">>
    /\ \E h \in DOMAIN hist : /\ hist[h].k = "Native" /\ hist[h].name = "map"
                               /\ hist[h].calls = <<[item |-> NumV(-1), value |-> NumV(0)],
                                                    [item |-> NumV(1), value |-> NumV(2)]>>

\* map or filter is about to call a Function or a Lambda for the next item
Invoking ==
    /\ Running("native") /\ ~TopF.called /\ TopF.i < Len(TopF.list.items)
    /\ TopF.func.c \in {"Function", "Lambda"}

\* C29: the body of a Function or Lambda is only ever invoked with as many
\* arguments as it has parameters: by a call expression, and by map and
\* filter, which pass one argument per list element.
ArgumentsMatchParameters ==
    /\ Calling => Len(Vals) - 1 = Len(Params(Vals[1]))
    /\ Invoking => Len(Params(TopF.func)) = 1

\* scanTokens is in its loop, at a character
Scanning == pc = "scan" /\ ~atEnd(source, TheLexer)

\* the characters that begin a token, a comment or white space
Known ==
    DOMAIN Single \cup {"-", "+", "*", "!", "=", "<", ">", "/", " ", "\r", "\t", "\n", "\""}

\* C22: scanTokens returns a well-formed token list for every source: every
\* turn of its loop consumes at least one character, so it ends; a character
\* that begins nothing and a string without its closing quote set the error
\* flag, which stays set, and the loop goes on behind them; the list returned
\* has the end-of-input token as its last element and nowhere else.
TokensWellFormed ==
    /\ [][Scanning =>
            LET c == CharAt(source, TopF.current)
            IN  /\ pc' = "scan"
                /\ TopF'.current > TopF.current
                /\ TopF'.current <= Len(source) + 1
                /\ hadError => hadError'
                /\ \A i \in DOMAIN tokens : tokens'[i] = tokens[i]
                /\ (~isAlphaNumeric(c) /\ c \notin Known) =>
                      /\ hadError' /\ tokens' = tokens
                      /\ TopF'.current = TopF.current + 1
                /\ (c = "\"" /\ tokens' = tokens) =>
                      /\ hadError' /\ TopF'.current >= Len(source)
                /\ (c = "\"" /\ tokens' # tokens) =>
                      /\ tokens'[Len(tokens')].type = "STRING"
                      /\ hadError' = hadError]_vars
    /\ [](pc = "scan" => \A i \in DOMAIN tokens : tokens[i].type # "EOF_TOKEN")
    /\ [](pc = "scanned" =>
            /\ tokens # <<>> /\ tokens[Len(tokens)].type = "EOF_TOKEN"
            /\ \A i \in 1..(Len(tokens) - 1) : tokens[i].type # "EOF_TOKEN")

\* the source #a( is scanned: the character # was reported, and the tokens
\* behind it are there, before the end-of-input token
TokensWellFormedWitness ==
    /\ pc = "scanned" /\ source = <<"#", "a", "(">> /\ hadError
    /\ Len(tokens) = 3 /\ tokens[1].type = "IDENTIFIER" /\ tokens[1].lexeme = "a"
    /\ tokens[2].type = "LEFT_PAREN" /\ tokens[3].type = "EOF_TOKEN"

\* the tokens with every LET token made a VAR token
AsVar(toks) ==
    [i \in DOMAIN toks |->
       IF toks[i].type = "LET" THEN [toks[i] EXCEPT !.type = "VAR"] ELSE toks[i]]

\* C23: var and let are synonyms: the word let is lexed as the keyword token
\* LET, which Parser::declaration takes for a variable declaration as it takes
\* VAR, and the word set is lexed as an IDENTIFIER.
LetDeclares ==
    pc = "scanned" =>
      /\ \A i \in DOMAIN tokens :
            tokens[i].type # "STRING" =>
              /\ tokens[i].lexeme = "var" => tokens[i].type = "VAR"
              /\ tokens[i].lexeme = "let" => tokens[i].type = "LET"
              /\ tokens[i].lexeme = "set" => tokens[i].type = "IDENTIFIER"
      /\ parse(tokens).statements = parse(AsVar(tokens)).statements

\* C21: a `this` binding is visible in the active environment if and only if
\* the current call frame is a bound-method invocation, and then it is the
\* instance the method was looked up on: it is not visible in the frame of a
\* plain function or lambda call, a function or lambda that was defined
\* inside a method body included
InBody ==
    pc = "running" /\ stack # <<>> /\ TopF.fn \in {"exec", "eval"}
    /\ \E i \in DOMAIN stack : stack[i].fn = "call"

CurrentCall ==
    stack[CHOOSE i \in DOMAIN stack :
             stack[i].fn = "call" /\ \A j \in DOMAIN stack : stack[j].fn = "call" => j <= i]

====
